---- MODULE Spec2Model ----
(***************************************************************************)
(* Model of the change algebra (ChangeDesc / ChangeSet) and of the leaf    *)
(* level of the Text rope of codemirror/state.                             *)
(*                                                                         *)
(* Source arrays are 0-based, TLA+ sequences are 1-based: the element the  *)
(* source calls a[i] is a[i + 1] here.  Code units are natural numbers, a  *)
(* line string is a sequence of code units.                                *)
(***************************************************************************)
EXTENDS Integers, Sequences, FiniteSets, TLC

----------------------------------------------------------------------------
(* Bounds of the model.                                                    *)

\* Longest start document, in code units.
MaxDocLen == 3
\* Longest text one change spec inserts.
MaxIns == 2
\* The same two bounds where two change sets are combined.
PairDocLen == 3
PairIns == 1
\* The same two bounds where three change descriptions are combined.
TripleDocLen == 1
TripleIns == 1
\* The same two bounds where operations are chained, and the longest chain.
SeqDocLen == 1
SeqIns == 1
MaxSteps == 2
OfDocLen == 2
OfIns == 1
OfChanges == 2

----------------------------------------------------------------------------
(* Program constants.                                                      *)

\* Tree.BranchShift and Tree.Branch: the branch factor of the rope.
BranchShift == 5
Branch == 32
\* Open.From and Open.To, the flags passed to decompose.
OpenFrom == 1
OpenTo == 2
\* The code unit of the default line separator "\n".
NL == 10
\* Default of the `to` parameter of appendText.
Far == 1000000000

\* MapMode
Simple == 0
TrackDel == 1
TrackBefore == 2
TrackAfter == 3

----------------------------------------------------------------------------
(* Values thrown by the code are modelled as records with an error field.  *)

Throw(msg) == [error |-> msg]
IsErr(x) == "error" \in DOMAIN x

Min(a, b) == IF a <= b THEN a ELSE b
Max(a, b) == IF a >= b THEN a ELSE b

\* String.prototype.slice(start, end) for start, end >= 0.
StrSlice(s, start, end) ==
  LET lo == Min(start, Len(s))
      hi == Min(end, Len(s))
  IN IF hi <= lo THEN << >> ELSE SubSeq(s, lo + 1, hi)

----------------------------------------------------------------------------
(* Text: the leaf level.  A TextLeaf is a record of its line strings and   *)
(* its cached length; the change sets of the specifications below insert   *)
(* and produce documents of fewer than Branch lines, which are one leaf.   *)

RECURSIVE textLengthFrom(_, _)
textLengthFrom(text, i) ==
  IF i > Len(text) THEN 0 ELSE Len(text[i]) + 1 + textLengthFrom(text, i + 1)

textLength(text) == textLengthFrom(text, 1) - 1

TextLeaf(text, length) == [text |-> text, length |-> length]

TextEmpty == TextLeaf(<< << >> >>, 0)

\* line.slice(start) of appendText.
sliceFrom(line, start) == StrSlice(line, start, Len(line))

\* The part of a line that starts at pos which lies in [from, to].
lineBit(line, pos, from, to) ==
  IF pos < from
  THEN sliceFrom(IF pos + Len(line) > to THEN StrSlice(line, 0, to - pos) ELSE line, from - pos)
  ELSE IF pos + Len(line) > to THEN StrSlice(line, 0, to - pos)
  ELSE line

\* target[target.length - 1] += line when first, target.push(line) otherwise.
pushLine(target, first, line) ==
  IF first THEN [target EXCEPT ![Len(target)] = @ \o line] ELSE Append(target, line)

\* The body of the loop of appendText for the line that starts at st.pos;
\* st holds target, pos and first.
appendLine(line, st, from, to) ==
  [target |-> IF st.pos + Len(line) >= from
              THEN pushLine(st.target, st.first, lineBit(line, st.pos, from, to))
              ELSE st.target,
   pos |-> st.pos + Len(line) + 1,
   first |-> st.first /\ ~(st.pos + Len(line) >= from)]

RECURSIVE appendTextLoop(_, _, _, _, _)
appendTextLoop(text, st, from, to, i) ==
  IF ~(i < Len(text) /\ st.pos <= to) THEN st.target
  ELSE appendTextLoop(text, appendLine(text[i + 1], st, from, to), from, to, i + 1)

appendText(text, target, from, to) ==
  appendTextLoop(text, [target |-> target, pos |-> 0, first |-> TRUE], from, to, 0)

sliceText(text, from, to) == appendText(text, << << >> >>, from, to)

\* TextLeaf.replace with a leaf argument.  The result stays one leaf while it
\* has at most Branch lines, which the bounds of the model guarantee.
TextReplace(doc, from, to, text) ==
  TextLeaf(appendText(doc.text, appendText(text.text, sliceText(doc.text, 0, from), 0, Far), to, Far),
           doc.length + text.length - (to - from))

TextAppend(doc, other) == TextReplace(doc, doc.length, doc.length, other)

\* TextLeaf.decompose with open = 0: the one part pushed on the target.
LeafDecompose(doc, from, to) ==
  IF from <= 0 /\ to >= doc.length THEN doc
  ELSE TextLeaf(sliceText(doc.text, from, to), Min(to, doc.length) - Max(0, from))

\* Text.slice: decompose, then TextNode.from on the single part, which
\* flattens it into a leaf carrying the length to - from.
TextSlice(doc, from, to) == TextLeaf(LeafDecompose(doc, from, to).text, to - from)

\* Text.eq on leaves: lengths, line counts and the line strings agree.
TextEq(a, b) == a.length = b.length /\ Len(a.text) = Len(b.text) /\ a.text = b.text

----------------------------------------------------------------------------
(* Text: the tree level.  A TextNode is a record of its children, its      *)
(* cached length and its cached number of lines; between two children      *)
(* there is an implied line break.  The target array of decompose is the   *)
(* record [parts |-> <<...>>], or the value thrown.                        *)

IsLeaf(t) == "text" \in DOMAIN t

\* Text.lines: the getter of TextLeaf, the field of TextNode.
Lines(t) == IF IsLeaf(t) THEN Len(t.text) ELSE t.lines

RECURSIVE sumLines(_, _)
sumLines(children, i) ==
  IF i > Len(children) THEN 0 ELSE Lines(children[i]) + sumLines(children, i + 1)

\* new TextNode(children, length)
TextNode(children, length) ==
  [children |-> children, length |-> length, lines |-> sumLines(children, 1)]

\* new TextLeaf(text), the length left to its default textLength(text).
NewLeaf(text) == TextLeaf(text, textLength(text))

RECURSIVE flatten(_)
RECURSIVE flattenAll(_, _)
flattenAll(children, i) ==
  IF i > Len(children) THEN << >> ELSE flatten(children[i]) \o flattenAll(children, i + 1)

\* Text.flatten: the line strings pushed on the target.
flatten(t) == IF IsLeaf(t) THEN t.text ELSE flattenAll(t.children, 1)

\* split filling each leaf with twice Branch lines.
splitDouble(text) ==
  [k \in 1..((Len(text) + 2 * Branch - 1) \div (2 * Branch)) |->
     NewLeaf(SubSeq(text, (k - 1) * 2 * Branch + 1, Min(k * 2 * Branch, Len(text))))]

\* TextLeaf.split(text, []): a leaf for each full run of Branch lines and
\* one for the lines that remain.
split(text) ==
  [k \in 1..((Len(text) + Branch - 1) \div Branch) |->
     NewLeaf(SubSeq(text, (k - 1) * Branch + 1, Min(k * Branch, Len(text))))]

\* The default of the length parameter of TextNode.from.
RECURSIVE childrenLength(_, _)
childrenLength(children, i) ==
  IF i > Len(children) THEN -1 ELSE children[i].length + 1 + childrenLength(children, i + 1)

RECURSIVE TextNodeFrom(_, _)
RECURSIVE fromAdd(_, _, _)
RECURSIVE fromAddAll(_, _, _, _)

\* flush of TextNode.from; st holds chunked, currentLines, currentLen and
\* currentChunk.
fromFlush(st) ==
  IF st.currentLines = 0 THEN st
  ELSE [chunked |-> Append(st.chunked,
                           IF Len(st.currentChunk) = 1 THEN st.currentChunk[1]
                           ELSE TextNodeFrom(st.currentChunk, st.currentLen)),
        currentLines |-> 0, currentLen |-> -1, currentChunk |-> << >>]

\* chunked.push(child) after flush()
fromPush(st, child) == [st EXCEPT !.chunked = Append(@, child)]

\* The last branch of add, after its call of flush, if any.
fromKeep(st, child) ==
  [st EXCEPT !.currentLines = @ + Lines(child),
             !.currentLen = @ + child.length + 1,
             !.currentChunk = Append(@, child)]

\* The third branch of add: the leaf is joined to the leaf before it.
fromJoin(st, child) ==
  [st EXCEPT !.currentLines = @ + Lines(child),
             !.currentLen = @ + child.length + 1,
             !.currentChunk[Len(st.currentChunk)] =
                TextLeaf(@.text \o child.text, @.length + 1 + child.length)]

\* add of TextNode.from; maxChunk is chunk << 1 and minChunk is chunk >> 1.
fromAdd(st, child, chunk) ==
  IF Lines(child) > 2 * chunk /\ ~IsLeaf(child)
  THEN fromAddAll(st, child.children, 1, chunk)
  ELSE IF Lines(child) > chunk \div 2
          /\ (st.currentLines > chunk \div 2 \/ st.currentLines = 0)
  THEN fromPush(fromFlush(st), child)
  ELSE IF IsLeaf(child) /\ st.currentLines # 0
          /\ IsLeaf(st.currentChunk[Len(st.currentChunk)])
          /\ Lines(child) + Lines(st.currentChunk[Len(st.currentChunk)]) <= Branch
  THEN fromJoin(st, child)
  ELSE fromKeep(IF st.currentLines + Lines(child) > chunk THEN fromFlush(st) ELSE st, child)

\* for (let child of children) add(child).  currentLines is never negative:
\* the test only has st computed before the next child is added.
fromAddAll(st, children, i, chunk) ==
  IF i > Len(children) \/ st.currentLines < 0 THEN st
  ELSE fromAddAll(fromAdd(st, children[i], chunk), children, i + 1, chunk)

\* return chunked.length == 1 ? chunked[0] : new TextNode(chunked, length)
fromResult(st, length) ==
  IF Len(st.chunked) = 1 THEN st.chunked[1] ELSE TextNode(st.chunked, length)

\* TextNode.from(children, length)
TextNodeFrom(children, length) ==
  IF sumLines(children, 1) < Branch THEN TextLeaf(flattenAll(children, 1), length)
  ELSE fromResult(fromFlush(fromAddAll([chunked |-> << >>, currentLines |-> 0,
                                        currentLen |-> -1, currentChunk |-> << >>],
                                       children, 1,
                                       Max(Branch, sumLines(children, 1) \div (2 ^ BranchShift)))),
                  length)

\* TextNode.from(children) with the length left to its default.
fromChildren(children) == TextNodeFrom(children, childrenLength(children, 1))

\* Text.of
TextOf(text) ==
  IF Len(text) = 0 THEN Throw("A document must have at least one line")
  ELSE IF Len(text) = 1 /\ Len(text[1]) = 0 THEN TextEmpty
  ELSE IF Len(text) <= Branch THEN NewLeaf(text)
  ELSE fromChildren(split(text))

\* The bits two open flags share: a & b for a, b in 0..3.
BitAnd(a, b) ==
  (IF a % 2 = 1 /\ b % 2 = 1 THEN OpenFrom ELSE 0)
  + (IF a \div 2 = 1 /\ b \div 2 = 1 THEN OpenTo ELSE 0)

\* pushJoined counting a line break between the two leaves it joins.
pushJoinedBreak(parts, joined, length) ==
  IF Len(joined) <= Branch THEN Append(parts, TextLeaf(joined, length + 1))
  ELSE parts \o << NewLeaf(SubSeq(joined, 1, Len(joined) \div 2)),
                   NewLeaf(SubSeq(joined, Len(joined) \div 2 + 1, Len(joined))) >>

\* target.push(new TextLeaf(joined, length)), or the two halves of joined
\* when it has more than Branch lines.
pushJoined(parts, joined, length) ==
  IF Len(joined) <= Branch THEN Append(parts, TextLeaf(joined, length))
  ELSE parts \o << NewLeaf(SubSeq(joined, 1, Len(joined) \div 2)),
                   NewLeaf(SubSeq(joined, Len(joined) \div 2 + 1, Len(joined))) >>

\* The open & Open.From branch of TextLeaf.decompose: text is joined to the
\* leaf popped off the target; popping an empty target gives undefined,
\* and reading its text throws.
joinPrev(parts, text) ==
  IF Len(parts) = 0 THEN Throw("TypeError: prev is undefined")
  ELSE IF ~IsLeaf(parts[Len(parts)]) THEN Throw("TypeError: prev.text is undefined")
  ELSE [parts |-> pushJoined(SubSeq(parts, 1, Len(parts) - 1),
                             appendText(text.text, parts[Len(parts)].text, 0, text.length),
                             parts[Len(parts)].length + text.length)]

\* TextLeaf.decompose after text is computed.
leafPush(target, text, open) ==
  IF open % 2 = 1 THEN joinPrev(target.parts, text)
  ELSE [parts |-> Append(target.parts, text)]

RECURSIVE decompose(_, _, _, _, _)

\* The body of the loop of TextNode.decompose for a child that starts at pos
\* and overlaps the range, childOpen computed.
decomposeChild(child, from, to, target, childOpen, pos) ==
  IF pos >= from /\ pos + child.length <= to /\ childOpen = 0
  THEN [parts |-> Append(target.parts, child)]
  ELSE decompose(child, from - pos, to - pos, target, childOpen)

\* The body of the loop of TextNode.decompose.
decomposeStep(child, from, to, target, open, pos) ==
  IF from <= pos + child.length /\ to >= pos
  THEN decomposeChild(child, from, to, target,
                      BitAnd(open, (IF pos <= from THEN OpenFrom ELSE 0)
                                   + (IF pos + child.length >= to THEN OpenTo ELSE 0)),
                      pos)
  ELSE target

RECURSIVE nodeDecompose(_, _, _, _, _, _, _)
nodeDecompose(t, from, to, target, open, i, pos) ==
  IF IsErr(target) \/ ~(pos <= to /\ i < Len(t.children)) THEN target
  ELSE nodeDecompose(t, from, to,
                     decomposeStep(t.children[i + 1], from, to, target, open, pos),
                     open, i + 1, pos + t.children[i + 1].length + 1)

\* Text.decompose(from, to, target, open): the target after the call.
decompose(t, from, to, target, open) ==
  IF IsErr(target) THEN target
  ELSE IF IsLeaf(t) THEN leafPush(target, LeafDecompose(t, from, to), open)
  ELSE nodeDecompose(t, from, to, target, open, 0, 0)

\* TextNode.from(parts, length), unless decompose threw.
fromParts(target, length) ==
  IF IsErr(target) THEN target ELSE TextNodeFrom(target.parts, length)

\* if (text.length) text.decompose(0, text.length, parts, Open.From | Open.To)
decomposeText(text, target) ==
  IF text.length # 0 THEN decompose(text, 0, text.length, target, OpenFrom + OpenTo)
  ELSE target

\* Text.replace of the base class.
baseReplace(t, from, to, text) ==
  fromParts(decompose(t, to, t.length,
                      decomposeText(text, decompose(t, 0, from, [parts |-> << >>], OpenTo)),
                      OpenFrom),
            t.length - (to - from) + text.length)

\* The end of TextLeaf.replace: r holds lines and newLen.
leafReplaced(r) ==
  IF Len(r.text) <= Branch THEN r ELSE TextNodeFrom(split(r.text), r.length)

\* replace that puts the text in at from and takes nothing out.
ReplaceKeepsRange(t, from, to, text) ==
  fromParts(decompose(t, from, t.length,
                      decomposeText(text, decompose(t, 0, from, [parts |-> << >>], OpenTo)),
                      OpenFrom),
            t.length + text.length)

RECURSIVE Replace(_, _, _, _)

\* The fast path of TextNode.replace, child i replaced by updated.
replaceChild(t, from, to, text, i, pos, updated) ==
  IF IsErr(updated) THEN updated
  ELSE IF Lines(updated) < (t.lines - Lines(t.children[i + 1]) + Lines(updated))
                             \div (2 ^ (BranchShift - 1))
          /\ Lines(updated) > (t.lines - Lines(t.children[i + 1]) + Lines(updated))
                                \div (2 ^ (BranchShift + 1))
  THEN TextNode([t.children EXCEPT ![i + 1] = updated], t.length - (to - from) + text.length)
  ELSE baseReplace(t, pos, pos + t.children[i + 1].length, updated)

RECURSIVE nodeReplaceLoop(_, _, _, _, _, _)
nodeReplaceLoop(t, from, to, text, i, pos) ==
  IF i >= Len(t.children) THEN baseReplace(t, from, to, text)
  ELSE IF from >= pos /\ to <= pos + t.children[i + 1].length
  THEN replaceChild(t, from, to, text, i, pos,
                    Replace(t.children[i + 1], from - pos, to - pos, text))
  ELSE nodeReplaceLoop(t, from, to, text, i + 1, pos + t.children[i + 1].length + 1)

\* replace(from, to, text) of TextLeaf and of TextNode.
Replace(t, from, to, text) ==
  IF IsLeaf(t)
  THEN (IF IsLeaf(text) THEN leafReplaced(TextReplace(t, from, to, text))
        ELSE baseReplace(t, from, to, text))
  ELSE IF Lines(text) < t.lines THEN nodeReplaceLoop(t, from, to, text, 0, 0)
  ELSE baseReplace(t, from, to, text)

\* Text.append
Append_(t, other) == Replace(t, t.length, t.length, other)

\* slice that takes everything up to the end of the document.
SliceToEnd(t, from, to) ==
  fromParts(decompose(t, from, t.length, [parts |-> << >>], 0), to - from)

\* Text.slice
Slice(t, from, to) == fromParts(decompose(t, from, to, [parts |-> << >>], 0), to - from)

\* new Line(from, to, number, text)
Line_(from, to, number, text) == [from |-> from, to |-> to, number |-> number, text |-> text]

RECURSIVE lineInner(_, _, _, _, _)
\* lineInner of TextLeaf and of TextNode, its loop at index i with at holding
\* line and offset; reading past the end of the array gives undefined, and
\* reading its length throws.
lineInner(t, target, isLine, at, i) ==
  IF i >= Len(IF IsLeaf(t) THEN t.text ELSE t.children)
  THEN Throw("TypeError: reading length of undefined")
  ELSE IF IsLeaf(t)
  THEN (IF (IF isLine THEN at.line ELSE at.offset + Len(t.text[i + 1])) >= target
        THEN Line_(at.offset, at.offset + Len(t.text[i + 1]), at.line, t.text[i + 1])
        ELSE lineInner(t, target, isLine,
                       [line |-> at.line + 1, offset |-> at.offset + Len(t.text[i + 1]) + 1],
                       i + 1))
  ELSE IF (IF isLine THEN at.line + Lines(t.children[i + 1]) - 1
           ELSE at.offset + t.children[i + 1].length) >= target
  THEN lineInner(t.children[i + 1], target, isLine, at, 0)
  ELSE lineInner(t, target, isLine,
                 [line |-> at.line + Lines(t.children[i + 1]),
                  offset |-> at.offset + t.children[i + 1].length + 1],
                 i + 1)

\* lineAt looking for the line that ends after pos.
lineAtAfter(t, pos) ==
  IF pos < 0 \/ pos > t.length THEN Throw("Invalid position in document")
  ELSE lineInner(t, pos + 1, FALSE, [line |-> 1, offset |-> 0], 0)

\* Text.lineAt
lineAt(t, pos) ==
  IF pos < 0 \/ pos > t.length THEN Throw("Invalid position in document")
  ELSE lineInner(t, pos, FALSE, [line |-> 1, offset |-> 0], 0)

\* line without the test of the line number.
lineUnchecked(t, n) == lineInner(t, n, TRUE, [line |-> 1, offset |-> 0], 0)

\* Text.line
lineNumbered(t, n) ==
  IF n < 1 \/ n > Lines(t) THEN Throw("Invalid line number in document")
  ELSE lineInner(t, n, TRUE, [line |-> 1, offset |-> 0], 0)

RECURSIVE sliceString(_, _, _, _, _)
\* sliceString(from, to) of TextLeaf and of TextNode with the default line
\* separator, its loop at index i and position pos.
sliceString(t, from, to, i, pos) ==
  IF ~(pos <= to /\ i < Len(IF IsLeaf(t) THEN t.text ELSE t.children)) THEN << >>
  ELSE (IF pos > from /\ i # 0 THEN << NL >> ELSE << >>)
       \o (IF IsLeaf(t)
           THEN (IF from < pos + Len(t.text[i + 1]) /\ to > pos
                 THEN StrSlice(t.text[i + 1], Max(0, from - pos), to - pos) ELSE << >>)
                \o sliceString(t, from, to, i + 1, pos + Len(t.text[i + 1]) + 1)
           ELSE (IF from < pos + t.children[i + 1].length /\ to > pos
                 THEN sliceString(t.children[i + 1], from - pos, to - pos, 0, 0) ELSE << >>)
                \o sliceString(t, from, to, i + 1, pos + t.children[i + 1].length + 1))

\* Text.eq: the cached lengths and line counts agree, and the two cursors
\* yield the same lines and line breaks.
Eq(a, b) == a.length = b.length /\ Lines(a) = Lines(b) /\ flatten(a) = flatten(b)

----------------------------------------------------------------------------
(* ChangeDesc: a record with the flat sections array <<len, ins, ...>>.     *)
(* ChangeSet: the same with the inserted array of Texts.                   *)

ChangeDesc(sections) == [sections |-> sections]
ChangeSet(sections, inserted) == [sections |-> sections, inserted |-> inserted]

RECURSIVE lengthFrom(_, _)
lengthFrom(sections, i) ==
  IF i >= Len(sections) THEN 0 ELSE sections[i + 1] + lengthFrom(sections, i + 2)

\* ChangeDesc.length
CsLength(set) == lengthFrom(set.sections, 0)

RECURSIVE newLengthFrom(_, _)
newLengthFrom(sections, i) ==
  IF i >= Len(sections) THEN 0
  ELSE LET ins == sections[i + 2]
       IN (IF ins < 0 THEN sections[i + 1] ELSE ins) + newLengthFrom(sections, i + 2)

\* ChangeDesc.newLength
CsNewLength(set) == newLengthFrom(set.sections, 0)

\* ChangeDesc.empty
CsEmpty(set) ==
  Len(set.sections) = 0 \/ (Len(set.sections) = 2 /\ set.sections[2] < 0)

\* ChangeSet.desc
Desc(set) == ChangeDesc(set.sections)

\* ChangeSet.empty(length)
ChangeSetEmpty(length) == ChangeSet(IF length # 0 THEN <<length, -1>> ELSE << >>, << >>)

addSection(sections, len, ins, forceJoin) ==
  LET last == Len(sections) - 2
  IN IF len = 0 /\ ins <= 0 THEN sections
     ELSE IF last >= 0 /\ ins <= 0 /\ ins = sections[last + 2]
       THEN [sections EXCEPT ![last + 1] = @ + len]
     ELSE IF len = 0 /\ last >= 0 /\ sections[last + 1] = 0
       THEN [sections EXCEPT ![last + 2] = @ + ins]
     ELSE IF forceJoin
       THEN (IF last >= 0
             THEN [sections EXCEPT ![last + 1] = @ + len, ![last + 2] = @ + ins]
             ELSE sections)
     ELSE sections \o <<len, ins>>

RECURSIVE padEmpty(_, _)
padEmpty(values, index) ==
  IF Len(values) < index THEN padEmpty(Append(values, TextEmpty), index) ELSE values

\* addInsert that never joins the text onto the last one.
addInsertApart(values, sections, value) ==
  IF value.length = 0 THEN values
  ELSE Append(padEmpty(values, (Len(sections) - 2) \div 2), value)

addInsert(values, sections, value) ==
  IF value.length = 0 THEN values
  ELSE LET index == (Len(sections) - 2) \div 2
       IN IF index < Len(values)
          THEN [values EXCEPT ![Len(values)] = TextAppend(@, value)]
          ELSE Append(padEmpty(values, index), value)

----------------------------------------------------------------------------
(* SectionIter: the record of its fields i, len, off, ins; the set it      *)
(* iterates is passed along.                                               *)

iterNext(set, it) ==
  IF it.i < Len(set.sections)
  THEN [i |-> it.i + 2, len |-> set.sections[it.i + 1], ins |-> set.sections[it.i + 2], off |-> 0]
  ELSE [i |-> it.i, len |-> 0, ins |-> -2, off |-> 0]

SectionIter(set) == iterNext(set, [i |-> 0, len |-> 0, ins |-> 0, off |-> 0])

iterDone(it) == it.ins = -2

iterLen2(it) == IF it.ins < 0 THEN it.len ELSE it.ins

iterText(set, it) ==
  LET index == (it.i - 2) \div 2
  IN IF index >= Len(set.inserted) THEN TextEmpty ELSE set.inserted[index + 1]

iterTextBit(set, it, len) ==
  LET index == (it.i - 2) \div 2
  IN IF index >= Len(set.inserted) /\ len = 0 THEN TextEmpty
     ELSE IF index >= Len(set.inserted) THEN Throw("TypeError")
     ELSE TextSlice(set.inserted[index + 1], it.off, it.off + len)

iterForward(set, it, len) ==
  IF len = it.len THEN iterNext(set, it)
  ELSE [it EXCEPT !.len = @ - len, !.off = @ + len]

iterForward2(set, it, len) ==
  IF it.ins = -1 THEN iterForward(set, it, len)
  ELSE IF len = it.ins THEN iterNext(set, it)
  ELSE [it EXCEPT !.ins = @ - len, !.off = @ + len]

----------------------------------------------------------------------------
(* iterChanges: the sequence of calls f(fromA, toA, fromB, toB, text).     *)

\* The inner for (;;) loop joining adjacent changes; i is the index after
\* the section (len, ins) just read, text the text collected so far.
RECURSIVE iterChangesJoin(_, _, _, _, _, _, _, _, _)
\* The end of one pass of that loop: stop at the end, at an unchanged
\* section or when changes are reported one by one, else read the next.
iterChangesJoined(set, hasText, individual, i, endA, endB, text) ==
  IF individual \/ i = Len(set.sections) \/ set.sections[i + 2] < 0
  THEN [endA |-> endA, endB |-> endB, text |-> text, i |-> i]
  ELSE iterChangesJoin(set, hasText, individual, i + 2,
                       set.sections[i + 1], set.sections[i + 2], endA, endB, text)

iterChangesJoin(set, hasText, individual, i, len, ins, endA, endB, text) ==
  iterChangesJoined(set, hasText, individual, i, endA + len, endB + ins,
                    IF ins # 0 /\ hasText
                    THEN TextAppend(text, set.inserted[((i - 2) \div 2) + 1])
                    ELSE text)

RECURSIVE iterChangesLoop(_, _, _, _, _, _)
\* The call f(posA, endA, posB, endB, text) for the joined change j, and on.
iterChangesCall(set, hasText, individual, posA, posB, j) ==
  << [fromA |-> posA, toA |-> j.endA, fromB |-> posB, toB |-> j.endB, text |-> j.text] >>
  \o iterChangesLoop(set, hasText, individual, j.endA, j.endB, j.i)

iterChangesLoop(set, hasText, individual, posA, posB, i) ==
  IF i >= Len(set.sections) THEN << >>
  ELSE IF set.sections[i + 2] < 0
  THEN iterChangesLoop(set, hasText, individual,
                       posA + set.sections[i + 1], posB + set.sections[i + 1], i + 2)
  ELSE iterChangesCall(set, hasText, individual, posA, posB,
                       iterChangesJoin(set, hasText, individual, i + 2, set.sections[i + 1],
                                       set.sections[i + 2], posA, posB, TextEmpty))

iterChanges(set, individual) ==
  iterChangesLoop(set, "inserted" \in DOMAIN set, individual, 0, 0, 0)

----------------------------------------------------------------------------
(* ChangeSet.apply and ChangeSet.invert                                    *)

RECURSIVE applyChanges(_, _, _)
applyChanges(doc, calls, k) ==
  IF k > Len(calls) THEN doc
  ELSE applyChanges(TextReplace(doc, calls[k].fromB,
                                calls[k].fromB + (calls[k].toA - calls[k].fromA), calls[k].text),
                    calls, k + 1)

\* A throw while computing the receiver or the argument passes through.
Apply(set, doc) ==
  IF IsErr(set) THEN set
  ELSE IF IsErr(doc) THEN doc
  ELSE IF CsLength(set) # doc.length
  THEN Throw("Applying change set to a document with the wrong length")
  ELSE applyChanges(doc, iterChanges(set, FALSE), 1)

\* The loop of invert with pos left behind on unchanged sections.
RECURSIVE invertLoopStalePos(_, _, _, _, _)
invertLoopStalePos(doc, sections, inserted, i, pos) ==
  IF i >= Len(sections) THEN ChangeSet(sections, inserted)
  ELSE LET len == sections[i + 1]
           ins == sections[i + 2]
       IN IF ins >= 0
          THEN invertLoopStalePos(doc,
                          [sections EXCEPT ![i + 1] = ins, ![i + 2] = len],
                          Append(padEmpty(inserted, i \div 2),
                                 IF len # 0 THEN TextSlice(doc, pos, pos + len) ELSE TextEmpty),
                          i + 2, pos + len)
          ELSE invertLoopStalePos(doc, sections, inserted, i + 2, pos)

RECURSIVE invertLoop(_, _, _, _, _)
invertLoop(doc, sections, inserted, i, pos) ==
  IF i >= Len(sections) THEN ChangeSet(sections, inserted)
  ELSE LET len == sections[i + 1]
           ins == sections[i + 2]
       IN IF ins >= 0
          THEN invertLoop(doc,
                          [sections EXCEPT ![i + 1] = ins, ![i + 2] = len],
                          Append(padEmpty(inserted, i \div 2),
                                 IF len # 0 THEN TextSlice(doc, pos, pos + len) ELSE TextEmpty),
                          i + 2, pos + len)
          ELSE invertLoop(doc, sections, inserted, i + 2, pos + len)

Invert(set, doc) == invertLoop(doc, set.sections, << >>, 0, 0)

\* ChangeDesc.invertedDesc
RECURSIVE invertedDescLoop(_, _)
invertedDescLoop(sections, i) ==
  IF i >= Len(sections) THEN << >>
  ELSE LET len == sections[i + 1]
           ins == sections[i + 2]
       IN (IF ins < 0 THEN <<len, ins>> ELSE <<ins, len>>) \o invertedDescLoop(sections, i + 2)

InvertedDesc(set) == ChangeDesc(invertedDescLoop(set.sections, 0))

----------------------------------------------------------------------------
(* composeSets                                                             *)

\* insB of the branch where A leaves the range unchanged.
composeInsB(b) == IF b.ins = -1 THEN -1 ELSE IF b.off # 0 THEN 0 ELSE b.ins

RECURSIVE composeLoop(_, _, _, _, _, _, _, _)
\* The end of the branch that handles overlapping sections, from the
\* sections array s2 it built and the length sectionLen it started from.
composeOverlap(setA, setB, mkSet, sectionLen, insert, a, b, open, len, s2) ==
  composeLoop(setA, setB, mkSet, s2,
              IF ~mkSet THEN insert
              ELSE IF a.ins = -1
                THEN (IF composeInsB(b) # 0 THEN addInsert(insert, s2, iterText(setB, b))
                      ELSE insert)
              ELSE IF b.ins = -1
                THEN addInsert(insert, s2, iterTextBit(setA, a, len))
              ELSE (IF b.off = 0 THEN addInsert(insert, s2, iterText(setB, b)) ELSE insert),
              iterForward2(setA, a, len), iterForward(setB, b, len),
              (a.ins > len \/ (b.ins >= 0 /\ b.len > len)) /\ (open \/ Len(s2) > sectionLen))

\* The end of the branch that handles an insertion of B.
composeInsert(setA, setB, mkSet, insert, a, b, open, s2) ==
  composeLoop(setA, setB, mkSet, s2,
              IF mkSet THEN addInsert(insert, s2, iterText(setB, b)) ELSE insert,
              a, iterNext(setB, b), open)

composeLoop(setA, setB, mkSet, sections, insert, a, b, open) ==
  IF iterDone(a) /\ iterDone(b)
  THEN (IF mkSet THEN ChangeSet(sections, insert) ELSE ChangeDesc(sections))
  ELSE IF a.ins = 0
  THEN composeLoop(setA, setB, mkSet, addSection(sections, a.len, 0, open), insert,
                   iterNext(setA, a), b, open)
  ELSE IF b.len = 0 /\ ~iterDone(b)
  THEN composeInsert(setA, setB, mkSet, insert, a, b, open, addSection(sections, 0, b.ins, open))
  ELSE IF iterDone(a) \/ iterDone(b)
  THEN Throw("Mismatched change set lengths")
  ELSE composeOverlap(setA, setB, mkSet, Len(sections), insert, a, b, open,
                      Min(iterLen2(a), b.len),
                      IF a.ins = -1
                      THEN addSection(sections, Min(iterLen2(a), b.len), composeInsB(b), open)
                      ELSE IF b.ins = -1
                      THEN addSection(sections, IF a.off # 0 THEN 0 ELSE a.len,
                                      Min(iterLen2(a), b.len), open)
                      ELSE addSection(sections, IF a.off # 0 THEN 0 ELSE a.len,
                                      IF b.off # 0 THEN 0 ELSE b.ins, open))

composeSets(setA, setB, mkSet) ==
  composeLoop(setA, setB, mkSet, << >>, << >>, SectionIter(setA), SectionIter(setB), FALSE)

\* compose and composeDesc with the operands of the empty shortcuts swapped.
ComposeSwappedShortcut(this, other) ==
  IF CsEmpty(this) THEN this
  ELSE IF CsEmpty(other) THEN other
  ELSE composeSets(this, other, TRUE)

ComposeDescSwappedShortcut(this, other) ==
  IF CsEmpty(this) THEN this
  ELSE IF CsEmpty(other) THEN other
  ELSE composeSets(this, other, FALSE)

\* ChangeSet.compose
Compose(this, other) ==
  IF CsEmpty(this) THEN other
  ELSE IF CsEmpty(other) THEN this
  ELSE composeSets(this, other, TRUE)

\* ChangeDesc.composeDesc
ComposeDesc(this, other) ==
  IF CsEmpty(this) THEN other
  ELSE IF CsEmpty(other) THEN this
  ELSE composeSets(this, other, FALSE)

----------------------------------------------------------------------------
(* mapSet                                                                  *)

\* The while (len) loop of the branch that skips a change of B.  When A is
\* exhausted before B's change is covered the loop of the source never ends;
\* that outcome is reported as a thrown value.
RECURSIVE mapCover(_, _, _, _, _, _, _)
\* One pass of that loop, from the piece it covers.
mapCoverPiece(setA, mkSet, sections, insert, a, inserted, len, piece) ==
  IF a.ins >= 0 /\ inserted < a.i /\ a.len <= piece
  THEN mapCover(setA, mkSet, addSection(sections, 0, a.ins, FALSE),
                IF mkSet
                THEN addInsert(insert, addSection(sections, 0, a.ins, FALSE), iterText(setA, a))
                ELSE insert,
                iterForward(setA, a, piece), a.i, len - piece)
  ELSE mapCover(setA, mkSet, sections, insert, iterForward(setA, a, piece), inserted, len - piece)

mapCover(setA, mkSet, sections, insert, a, inserted, len) ==
  IF len = 0 THEN [sections |-> sections, insert |-> insert, a |-> a, inserted |-> inserted]
  ELSE IF iterDone(a) THEN Throw("no termination")
  ELSE mapCoverPiece(setA, mkSet, sections, insert, a, inserted, len, Min(a.len, len))

\* The while (left) loop of the branch that processes a change of A.
RECURSIVE mapAdvance(_, _, _, _)
mapAdvance(setB, b, len, left) ==
  IF left = 0 THEN [b |-> b, len |-> len, left |-> left]
  ELSE IF b.ins = -1
  THEN mapAdvance(setB, iterForward(setB, b, Min(left, b.len)),
                  len + Min(left, b.len), left - Min(left, b.len))
  ELSE IF b.ins = 0 /\ b.len < left
  THEN mapAdvance(setB, iterNext(setB, b), len, left - b.len)
  ELSE [b |-> b, len |-> len, left |-> left]

RECURSIVE mapLoop(_, _, _, _, _, _, _, _, _)
\* The end of the branch that skips a change of B, from the result r of its
\* inner loop.
mapSkipped(setA, setB, before, mkSet, b, r) ==
  IF IsErr(r) THEN r
  ELSE mapLoop(setA, setB, before, mkSet, r.sections, r.insert, r.a, iterNext(setB, b),
               r.inserted)

\* The end of the branch that processes a change of A, from the result r of
\* its inner loop and the sections array s2 it built.
mapProcessed(setA, setB, before, mkSet, insert, a, inserted, r, s2) ==
  IF a.len # 0 /\ r.left = a.len /\ inserted = a.i /\ iterDone(r.b)
  THEN Throw("no termination")
  ELSE mapLoop(setA, setB, before, mkSet, s2,
               IF mkSet /\ inserted < a.i THEN addInsert(insert, s2, iterText(setA, a))
               ELSE insert,
               iterForward(setA, a, a.len - r.left), r.b, a.i)

\* The sections array that branch builds.
mapProcess(setA, setB, before, mkSet, sections, insert, a, inserted, r) ==
  mapProcessed(setA, setB, before, mkSet, insert, a, inserted, r,
               addSection(sections, r.len, IF inserted < a.i THEN a.ins ELSE 0, FALSE))

mapLoop(setA, setB, before, mkSet, sections, insert, a, b, inserted) ==
  IF a.ins = -1 /\ b.ins = -1
  THEN mapLoop(setA, setB, before, mkSet, addSection(sections, Min(a.len, b.len), -1, FALSE),
               insert, iterForward(setA, a, Min(a.len, b.len)),
               iterForward(setB, b, Min(a.len, b.len)), inserted)
  ELSE IF b.ins >= 0 /\ (a.ins < 0 \/ inserted = a.i
                         \/ (a.off = 0 /\ (b.len < a.len \/ (b.len = a.len /\ ~before))))
  THEN mapSkipped(setA, setB, before, mkSet, b,
                  mapCover(setA, mkSet, addSection(sections, b.ins, -1, FALSE), insert,
                           a, inserted, b.len))
  ELSE IF a.ins >= 0
  THEN mapProcess(setA, setB, before, mkSet, sections, insert, a, inserted,
                  mapAdvance(setB, b, 0, a.len))
  ELSE IF iterDone(a) /\ iterDone(b)
  THEN (IF mkSet THEN ChangeSet(sections, insert) ELSE ChangeDesc(sections))
  ELSE Throw("Mismatched change set lengths")

mapSet(setA, setB, before, mkSet) ==
  mapLoop(setA, setB, before, mkSet, << >>, << >>, SectionIter(setA), SectionIter(setB), -1)

\* map that always takes the before side.
MapAlwaysBefore(this, other, before) ==
  IF CsEmpty(other) THEN this ELSE mapSet(this, other, TRUE, TRUE)

\* ChangeSet.map
Map(this, other, before) == IF CsEmpty(other) THEN this ELSE mapSet(this, other, before, TRUE)

\* ChangeDesc.mapDesc
MapDesc(this, other, before) == IF CsEmpty(other) THEN this ELSE mapSet(this, other, before, FALSE)

----------------------------------------------------------------------------
(* ChangeSet.of.  A change spec is a sequence of items; an item is either  *)
(* a plain change [from, to, insert], insert being the line strings the    *)
(* inserted string splits into, or a ChangeSet.  The closure variables of  *)
(* the source (sections, inserted, pos, total) are the fields of st.       *)

NoTotal == [none |-> TRUE]
IsNone(t) == "none" \in DOMAIN t

\* total.compose(mapped), unless computing mapped threw.
composeUnlessThrown(total, mapped) == IF IsErr(mapped) THEN mapped ELSE Compose(total, mapped)

\* total.compose(set.map(total))
composeMapped(total, set) == composeUnlessThrown(total, Map(set, total, FALSE))

\* The closure variables after total is assigned and the batch is reset.
flushed(total) ==
  IF IsErr(total) THEN total
  ELSE [sections |-> << >>, inserted |-> << >>, pos |-> 0, total |-> total]

\* total = total ? total.compose(set.map(total)) : set
newTotal(total, set) == IF ~IsNone(total) THEN composeMapped(total, set) ELSE set

\* flush that composes the batch without mapping it over total.
flushUnmapped(st, length, force) ==
  IF ~force /\ Len(st.sections) = 0 THEN st
  ELSE flushed(IF IsNone(st.total)
               THEN ChangeSet(IF st.pos < length
                              THEN addSection(st.sections, length - st.pos, -1, FALSE)
                              ELSE st.sections, st.inserted)
               ELSE Compose(st.total,
                            ChangeSet(IF st.pos < length
                                      THEN addSection(st.sections, length - st.pos, -1, FALSE)
                                      ELSE st.sections, st.inserted)))

flush(st, length, force) ==
  IF ~force /\ Len(st.sections) = 0 THEN st
  ELSE flushed(newTotal(st.total,
                        ChangeSet(IF st.pos < length
                                  THEN addSection(st.sections, length - st.pos, -1, FALSE)
                                  ELSE st.sections, st.inserted)))

\* The closure variables with total assigned, unless computing it threw.
withTotal(f, total) == IF IsErr(total) THEN total ELSE [f EXCEPT !.total = total]

\* The two addSection calls of a plain change, and pos = to.
addChange(f, spec, insText) ==
  [f EXCEPT !.sections = addSection(IF spec.from > f.pos
                                    THEN addSection(f.sections, spec.from - f.pos, -1, FALSE)
                                    ELSE f.sections,
                                    spec.to - spec.from, insText.length, FALSE),
            !.pos = spec.to]

\* process after its call of flush, if any, has left the closure variables f.
processFlushed(f, spec) ==
  IF IsErr(f) THEN f
  ELSE IF "sections" \in DOMAIN spec THEN withTotal(f, newTotal(f.total, spec))
  ELSE [addChange(f, spec, TextOf(spec.insert))
          EXCEPT !.inserted = addInsert(f.inserted,
                                        addChange(f, spec, TextOf(spec.insert)).sections,
                                        TextOf(spec.insert))]

\* process without the length test of a ChangeSet inside the spec.
processUnchecked(st, length, spec) ==
  IF "sections" \notin DOMAIN spec
     /\ (spec.from > spec.to \/ spec.from < 0 \/ spec.to > length)
  THEN Throw("Invalid change range")
  ELSE IF "sections" \notin DOMAIN spec
          /\ spec.from = spec.to /\ TextOf(spec.insert).length = 0
  THEN st
  ELSE processFlushed(IF "sections" \in DOMAIN spec \/ spec.from < st.pos
                      THEN flush(st, length, FALSE) ELSE st, spec)

process(st, length, spec) ==
  IF "sections" \in DOMAIN spec /\ CsLength(spec) # length
  THEN Throw("Mismatched change set length")
  ELSE IF "sections" \notin DOMAIN spec
          /\ (spec.from > spec.to \/ spec.from < 0 \/ spec.to > length)
  THEN Throw("Invalid change range")
  ELSE IF "sections" \notin DOMAIN spec
          /\ spec.from = spec.to /\ TextOf(spec.insert).length = 0
  THEN st
  ELSE processFlushed(IF "sections" \in DOMAIN spec \/ spec.from < st.pos
                      THEN flush(st, length, FALSE) ELSE st, spec)

RECURSIVE processAll(_, _, _, _)
\* The rest of the for (let sub of spec) loop, unless process threw.
processRest(st, length, changes, k) ==
  IF IsErr(st) THEN st ELSE processAll(st, length, changes, k)

processAll(st, length, changes, k) ==
  IF k > Len(changes) THEN st
  ELSE processRest(process(st, length, changes[k]), length, changes, k + 1)

\* flush(!total) and return total, unless process threw.
finish(st, length) ==
  IF IsErr(st) THEN st ELSE flush(st, length, IsNone(st.total))

totalOf(st) == IF IsErr(st) THEN st ELSE st.total

Of(changes, length) ==
  totalOf(finish(processAll([sections |-> << >>, inserted |-> << >>, pos |-> 0,
                             total |-> NoTotal], length, changes, 1),
                 length))

----------------------------------------------------------------------------
(* ChangeSet.filter: st holds resultSections, resultInserted,              *)
(* filteredSections, the iterator and pos; stop is set by `break done`.    *)

filterIns(it) == IF it.ins = -1 THEN -1 ELSE IF it.off = 0 THEN it.ins ELSE 0

RECURSIVE filterKeep(_, _, _)
filterKeep(set, st, next) ==
  IF ~(st.pos < next \/ (st.pos = next /\ st.iter.len = 0)) THEN st
  ELSE IF iterDone(st.iter) THEN [st EXCEPT !.stop = TRUE]
  ELSE LET len == Min(st.iter.len, next - st.pos)
           ins == filterIns(st.iter)
           rs == addSection(st.resultSections, len, ins, FALSE)
       IN filterKeep(set,
            [st EXCEPT !.filteredSections = addSection(@, len, -1, FALSE),
                       !.resultSections = rs,
                       !.resultInserted = IF ins > 0 THEN addInsert(@, rs, iterText(set, st.iter))
                                          ELSE @,
                       !.iter = iterForward(set, @, len),
                       !.pos = @ + len],
            next)

RECURSIVE filterDrop(_, _, _)
filterDrop(set, st, end) ==
  IF ~(st.pos < end) THEN st
  ELSE IF iterDone(st.iter) THEN [st EXCEPT !.stop = TRUE]
  ELSE LET len == Min(st.iter.len, end - st.pos)
       IN filterDrop(set,
            [st EXCEPT !.resultSections = addSection(@, len, -1, FALSE),
                       !.filteredSections = addSection(@, len, filterIns(st.iter), FALSE),
                       !.iter = iterForward(set, @, len),
                       !.pos = @ + len],
            end)

RECURSIVE filterLoop(_, _, _, _)
\* After the second inner loop: `break done`, or the next pair of ranges.
filterDropped(set, ranges, st, i) ==
  IF st.stop THEN st ELSE filterLoop(set, ranges, st, i)

\* After the first inner loop: `break done`, or the second inner loop up to
\* end = ranges[i++].
filterKept(set, ranges, st, i) ==
  IF st.stop THEN st
  ELSE filterDropped(set, ranges, filterDrop(set, st, ranges[i + 1]), i + 1)

filterLoop(set, ranges, st, i) ==
  filterKept(set, ranges,
             filterKeep(set, st, IF i = Len(ranges) THEN Far ELSE ranges[i + 1]),
             IF i = Len(ranges) THEN i ELSE i + 1)

\* The object filter returns.
filterResult(st) ==
  [changes |-> ChangeSet(st.resultSections, st.resultInserted),
   filtered |-> ChangeDesc(st.filteredSections)]

Filter(set, ranges) ==
  filterResult(filterLoop(set, ranges,
                          [resultSections |-> << >>, resultInserted |-> << >>,
                           filteredSections |-> << >>, iter |-> SectionIter(set),
                           pos |-> 0, stop |-> FALSE], 0))

----------------------------------------------------------------------------
(* ChangeSet.toJSON / fromJSON.  A JSON part is [num |-> len] for the      *)
(* number len and [arr |-> len, strings |-> lines] for the array           *)
(* [len, ...lines].                                                        *)

\* The loop of toJSON writing a pure deletion as the bare number len.
RECURSIVE toJSONLoopBareDeletion(_, _)
toJSONLoopBareDeletion(set, i) ==
  IF i >= Len(set.sections) THEN << >>
  ELSE << IF set.sections[i + 2] <= 0 THEN [num |-> set.sections[i + 1]]
          ELSE [arr |-> set.sections[i + 1], strings |-> set.inserted[(i \div 2) + 1].text] >>
       \o toJSONLoopBareDeletion(set, i + 2)

RECURSIVE toJSONLoop(_, _)
toJSONLoop(set, i) ==
  IF i >= Len(set.sections) THEN << >>
  ELSE LET len == set.sections[i + 1]
           ins == set.sections[i + 2]
       IN << IF ins < 0 THEN [num |-> len]
             ELSE IF ins = 0 THEN [arr |-> len, strings |-> << >>]
             ELSE [arr |-> len, strings |-> set.inserted[(i \div 2) + 1].text] >>
          \o toJSONLoop(set, i + 2)

ToJSON(set) == toJSONLoop(set, 0)

RECURSIVE fromJSONLoop(_, _, _, _)
fromJSONLoop(json, sections, inserted, i) ==
  IF i >= Len(json) THEN ChangeSet(sections, inserted)
  ELSE LET part == json[i + 1]
       IN IF "num" \in DOMAIN part
          THEN fromJSONLoop(json, sections \o <<part.num, -1>>, inserted, i + 1)
          ELSE IF Len(part.strings) = 0
          THEN fromJSONLoop(json, sections \o <<part.arr, 0>>, inserted, i + 1)
          ELSE LET t == TextOf(part.strings)
               IN fromJSONLoop(json, sections \o <<part.arr, t.length>>,
                               Append(padEmpty(inserted, i), t), i + 1)

FromJSON(json) == fromJSONLoop(json, << >>, << >>, 0)

----------------------------------------------------------------------------
(* ChangeDesc.mapPos and touchesRange.  mapPos returns [num |-> n] for a   *)
(* position and Null for null.                                             *)

Null == [null |-> TRUE]
Num(n) == [num |-> n]

\* The walk of mapPos keeping the offset of a position inside a replaced
\* range, as it does inside an unchanged one.
RECURSIVE mapPosLoopOffset(_, _, _, _, _, _, _)
mapPosLoopOffset(sections, pos, assoc, mode, posA, posB, i) ==
  IF i >= Len(sections)
  THEN (IF pos > posA THEN Throw("Position is out of range for changeset") ELSE Num(posB))
  ELSE LET len == sections[i + 1]
           ins == sections[i + 2]
           endA == posA + len
       IN IF ins < 0
          THEN (IF endA > pos THEN Num(posB + (pos - posA))
                ELSE mapPosLoopOffset(sections, pos, assoc, mode, endA, posB + len, i + 2))
          ELSE IF mode # Simple /\ endA >= pos
                  /\ (   (mode = TrackDel /\ posA < pos /\ endA > pos)
                      \/ (mode = TrackBefore /\ posA < pos)
                      \/ (mode = TrackAfter /\ endA > pos))
          THEN Null
          ELSE IF endA > pos \/ (endA = pos /\ assoc < 0 /\ len = 0)
          THEN Num(posB + (pos - posA))
          ELSE mapPosLoopOffset(sections, pos, assoc, mode, endA, posB + ins, i + 2)

RECURSIVE mapPosLoop(_, _, _, _, _, _, _)
mapPosLoop(sections, pos, assoc, mode, posA, posB, i) ==
  IF i >= Len(sections)
  THEN (IF pos > posA THEN Throw("Position is out of range for changeset") ELSE Num(posB))
  ELSE LET len == sections[i + 1]
           ins == sections[i + 2]
           endA == posA + len
       IN IF ins < 0
          THEN (IF endA > pos THEN Num(posB + (pos - posA))
                ELSE mapPosLoop(sections, pos, assoc, mode, endA, posB + len, i + 2))
          ELSE IF mode # Simple /\ endA >= pos
                  /\ (   (mode = TrackDel /\ posA < pos /\ endA > pos)
                      \/ (mode = TrackBefore /\ posA < pos)
                      \/ (mode = TrackAfter /\ endA > pos))
          THEN Null
          ELSE IF endA > pos \/ (endA = pos /\ assoc < 0 /\ len = 0)
          THEN (IF pos = posA \/ assoc < 0 THEN Num(posB) ELSE Num(posB + ins))
          ELSE mapPosLoop(sections, pos, assoc, mode, endA, posB + ins, i + 2)

\* mapPos that takes every position as associated forward.
mapPosForward(set, pos, assoc, mode) == mapPosLoop(set.sections, pos, 1, mode, 0, 0, 0)

mapPos(set, pos, assoc, mode) == mapPosLoop(set.sections, pos, assoc, mode, 0, 0, 0)

RECURSIVE touchesRangeLoop(_, _, _, _, _)
touchesRangeLoop(sections, from, to, i, pos) ==
  IF ~(i < Len(sections) /\ pos <= to) THEN "false"
  ELSE LET len == sections[i + 1]
           ins == sections[i + 2]
           end == pos + len
       IN IF ins >= 0 /\ pos <= to /\ end >= from
          THEN (IF pos < from /\ end > to THEN "cover" ELSE "true")
          ELSE touchesRangeLoop(sections, from, to, i + 2, end)

\* touchesRange that takes the end of the range as exclusive.
touchesRangeHalfOpen(set, from, to) == touchesRangeLoop(set.sections, from, to - 1, 0, 0)

touchesRange(set, from, to) == touchesRangeLoop(set.sections, from, to, 0, 0)

----------------------------------------------------------------------------
(* Inputs.  A document of n code units holds the units 1..n, one of which  *)
(* may be a line break; the text a change inserts holds units above its    *)
(* tag, so that every unit of a result names where it came from.           *)

Line(tag, k) == [j \in 1..k |-> tag + j]

DocLines(n) ==
  { << Line(0, n) >> } \cup { << Line(0, b - 1), [j \in 1..(n - b) |-> b + j] >> : b \in 1..n }

Docs(maxLen) == { TextOf(l) : l \in UNION { DocLines(n) : n \in 0..maxLen } }

PlainDocs(maxLen) == { TextOf(<< Line(0, n) >>) : n \in 0..maxLen }

InsertLines(tag, maxIns) ==
  { << Line(tag, k) >> : k \in 0..maxIns } \cup { << Line(tag, k - 1), << >> >> : k \in 1..maxIns }

PlainInsertLines(tag, maxIns) == { << Line(tag, k) >> : k \in 0..maxIns }

ChangesWith(n, inserts) ==
  { c \in [from : 0..n, to : 0..n, insert : inserts] : c.from <= c.to }

\* Change specs of at most two plain changes, in any order.
ChangeLists(n, tag, maxIns) ==
  LET first == ChangesWith(n, InsertLines(tag, maxIns))
      second == ChangesWith(n, InsertLines(tag + 5, maxIns))
  IN { << >> } \cup { << a >> : a \in first } \cup { << a, b >> : a \in first, b \in second }

\* The same without line breaks, of at most k <= 2 changes.
PlainChangeLists(n, tag, maxIns, k) ==
  LET first == ChangesWith(n, PlainInsertLines(tag, maxIns))
      second == ChangesWith(n, PlainInsertLines(tag + 5, maxIns))
  IN { << >> } \cup { << a >> : a \in first }
     \cup (IF k >= 2 THEN { << a, b >> : a \in first, b \in second } ELSE { })

\* The change sets ChangeSet.of builds from those specs.
PlainSets(n, tag, maxIns, k) == { Of(l, n) : l \in PlainChangeLists(n, tag, maxIns, k) }

\* Pairs of change sets over documents of n and m code units, one of them of
\* at most two changes and the other of at most one.
SetPairs(n, m, maxIns) ==
  UNION { PlainSets(n, 10, maxIns, k[1]) \X PlainSets(m, 20, maxIns, k[2]) :
            k \in { << 2, 1 >>, << 1, 2 >> } }

----------------------------------------------------------------------------
(* State: a document, up to three change sets, the arguments and the       *)
(* results of the operations applied so far, and the step reached.         *)

VARIABLES doc, setA, setB, setC, arg, out, pc

vars == << doc, setA, setB, setC, arg, out, pc >>

Unset == [unset |-> TRUE]

----------------------------------------------------------------------------
(* SpecInvert: apply a change set to its document, invert it against the   *)
(* document, apply the inverse to the changed document.                    *)

InitInvert ==
  \E d \in Docs(MaxDocLen) :
    \E l \in ChangeLists(d.length, 10, MaxIns) :
      /\ doc = d
      /\ setA = Of(l, d.length)
      /\ setB = Unset /\ setC = Unset /\ arg = Unset /\ out = Unset
      /\ pc = "start"

ApplyChanges ==
  /\ pc = "start"
  /\ out' = [applied |-> Apply(setA, doc)]
  /\ pc' = "applied"
  /\ UNCHANGED << doc, setA, setB, setC, arg >>

InvertChanges ==
  /\ pc = "applied"
  /\ setB' = Invert(setA, doc)
  /\ pc' = "inverted"
  /\ UNCHANGED << doc, setA, setC, arg, out >>

ApplyInverse ==
  /\ pc = "inverted"
  /\ out' = [applied |-> out.applied, back |-> Apply(setB, out.applied)]
  /\ pc' = "reverted"
  /\ UNCHANGED << doc, setA, setB, setC, arg >>

NextInvert == ApplyChanges \/ InvertChanges \/ ApplyInverse

SpecInvert == InitInvert /\ [][NextInvert]_vars

\* C1: inverting a change set against its document and applying the inverse
\* to the changed document gives back a document equal to the original.
InvertRoundTrip ==
  pc = "reverted" => (~IsErr(out.back) /\ TextEq(out.back, doc) /\ out.back = doc)

----------------------------------------------------------------------------
(* SpecRebase: two change sets A and B that start in the same document     *)
(* are rebased over each other and applied in both orders.                 *)

InitRebase ==
  \E d \in PlainDocs(PairDocLen) :
    \E p \in SetPairs(d.length, d.length, PairIns) :
      /\ doc = d
      /\ setA = p[1]
      /\ setB = p[2]
      /\ setC = Unset /\ arg = Unset /\ out = Unset
      /\ pc = "start"

RebaseB ==
  /\ pc = "start"
  /\ out' = [left |-> Compose(setA, Map(setB, setA, FALSE))]
  /\ pc' = "left"
  /\ UNCHANGED << doc, setA, setB, setC, arg >>

RebaseA ==
  /\ pc = "left"
  /\ out' = [left |-> out.left, right |-> Compose(setB, Map(setA, setB, TRUE))]
  /\ pc' = "right"
  /\ UNCHANGED << doc, setA, setB, setC, arg >>

ApplyRebased ==
  /\ pc = "right"
  /\ out' = [left |-> out.left, right |-> out.right,
             docLeft |-> Apply(out.left, doc), docRight |-> Apply(out.right, doc)]
  /\ pc' = "applied"
  /\ UNCHANGED << doc, setA, setB, setC, arg >>

NextRebase == RebaseB \/ RebaseA \/ ApplyRebased

SpecRebase == InitRebase /\ [][NextRebase]_vars

\* C2: A.compose(B.map(A)) and B.compose(A.map(B, true)) produce the same
\* document.
RebaseConverges ==
  pc = "applied" => (~IsErr(out.docLeft) /\ TextEq(out.docLeft, out.docRight))

----------------------------------------------------------------------------
(* SpecCompose: a change set A on the document and a change set B on the   *)
(* document A produces are applied one after the other, composed, and the  *)
(* composition is applied to the start document.                           *)

InitCompose ==
  \E d \in PlainDocs(PairDocLen) :
    \E m \in 0..(d.length + 2 * PairIns) :
      \E p \in { q \in SetPairs(d.length, m, PairIns) : CsNewLength(q[1]) = m } :
        /\ doc = d
        /\ setA = p[1]
        /\ setB = p[2]
        /\ setC = Unset /\ arg = Unset /\ out = Unset
        /\ pc = "start"

ApplyInTurn ==
  /\ pc = "start"
  /\ out' = [docC |-> Apply(setB, Apply(setA, doc))]
  /\ pc' = "applied"
  /\ UNCHANGED << doc, setA, setB, setC, arg >>

ComposeChanges ==
  /\ pc = "applied"
  /\ setC' = Compose(setA, setB)
  /\ pc' = "composed"
  /\ UNCHANGED << doc, setA, setB, arg, out >>

ApplyComposed ==
  /\ pc = "composed"
  /\ out' = [docC |-> out.docC, docAC |-> Apply(setC, doc)]
  /\ pc' = "done"
  /\ UNCHANGED << doc, setA, setB, setC, arg >>

NextCompose == ApplyInTurn \/ ComposeChanges \/ ApplyComposed

SpecCompose == InitCompose /\ [][NextCompose]_vars

\* C3: A.compose(B) has the length of A and the new length of B, and applied
\* to the start document it gives the document B.apply(A.apply(doc)).
ComposeIsSequence ==
  pc = "done" =>
    /\ ~IsErr(setC) /\ ~IsErr(out.docAC) /\ ~IsErr(out.docC)
    /\ CsLength(setC) = CsLength(setA)
    /\ CsNewLength(setC) = CsNewLength(setB)
    /\ TextEq(out.docAC, out.docC)

----------------------------------------------------------------------------
(* SpecAssoc: three change descriptions A, B, C, each starting where the   *)
(* one before ends, are composed as (A B) C and as A (B C).                *)

Descs(n, maxIns, k) == { Desc(x) : x \in PlainSets(n, 10, maxIns, k) }

InitAssoc ==
  \E n \in 0..TripleDocLen, m \in 0..(TripleDocLen + 2 * TripleIns),
     k \in 0..(TripleDocLen + 3 * TripleIns) :
    \E a \in { x \in Descs(n, TripleIns, 2) : CsNewLength(x) = m },
       b \in { x \in Descs(m, TripleIns, 1) : CsNewLength(x) = k },
       c \in Descs(k, TripleIns, 1) :
      /\ setA = a /\ setB = b /\ setC = c
      /\ doc = Unset /\ arg = Unset /\ out = Unset
      /\ pc = "start"

ComposeLeftFirst ==
  /\ pc = "start"
  /\ out' = [left |-> ComposeDesc(ComposeDesc(setA, setB), setC)]
  /\ pc' = "left"
  /\ UNCHANGED << doc, setA, setB, setC, arg >>

ComposeRightFirst ==
  /\ pc = "left"
  /\ out' = [left |-> out.left, right |-> ComposeDesc(setA, ComposeDesc(setB, setC))]
  /\ pc' = "done"
  /\ UNCHANGED << doc, setA, setB, setC, arg >>

NextAssoc == ComposeLeftFirst \/ ComposeRightFirst

SpecAssoc == InitAssoc /\ [][NextAssoc]_vars

\* The calls iterChangedRanges(f) makes: the changed ranges, adjacent ones joined.
rangesOf(calls) ==
  [j \in DOMAIN calls |-> << calls[j].fromA, calls[j].toA, calls[j].fromB, calls[j].toB >>]

ChangedRanges(desc) == rangesOf(iterChanges(desc, FALSE))

\* C4 as stated: both ways of composing give equal section arrays.
ComposeDescSameSections ==
  pc = "done" => out.left.sections = out.right.sections

\* C4 as amended: both ways of composing give descriptions of the same
\* length and new length that report the same changed ranges.
ComposeDescAssociative ==
  pc = "done" =>
    /\ ~IsErr(out.left) /\ ~IsErr(out.right)
    /\ CsLength(out.left) = CsLength(out.right)
    /\ CsNewLength(out.left) = CsNewLength(out.right)
    /\ CsLength(out.left) = CsLength(setA)
    /\ CsNewLength(out.left) = CsNewLength(setC)
    /\ ChangedRanges(out.left) = ChangedRanges(out.right)

----------------------------------------------------------------------------
(* SpecDesc: positions and ranges are mapped through and tested against a  *)
(* change description.                                                     *)

Assocs == { -1, 0, 1 }
MapModes == { Simple, TrackDel, TrackBefore, TrackAfter }

InitDesc ==
  \E n \in 0..MaxDocLen :
    \E a \in Descs(n, MaxIns, 2) :
      /\ setA = a
      /\ doc = Unset /\ setB = Unset /\ setC = Unset /\ arg = Unset /\ out = Unset
      /\ pc = "start"

\* mapPos(pos, assoc, mode) for every position of the old document.
MapPositions ==
  \E assoc \in Assocs, mode \in MapModes :
    /\ arg' = [assoc |-> assoc, mode |-> mode]
    /\ out' = [mapped |-> [p \in 0..CsLength(setA) |-> mapPos(setA, p, assoc, mode)]]
    /\ pc' = "mapped"
    /\ UNCHANGED << doc, setA, setB, setC >>

TouchRange ==
  \E from \in 0..CsLength(setA) :
    \E to \in from..CsLength(setA) :
      /\ arg' = [from |-> from, to |-> to]
      /\ out' = [touches |-> touchesRange(setA, from, to)]
      /\ pc' = "touched"
      /\ UNCHANGED << doc, setA, setB, setC >>

NextDesc == MapPositions \/ TouchRange

SpecDesc == InitDesc /\ [][NextDesc]_vars

\* The sections of a description, numbered from 1: length, inserted length,
\* start in the old document and start in the new document.
NSections(set) == Len(set.sections) \div 2
SecLen(set, k) == set.sections[2 * k - 1]
SecIns(set, k) == set.sections[2 * k]
RECURSIVE SecPosA(_, _)
SecPosA(set, k) == IF k <= 1 THEN 0 ELSE SecPosA(set, k - 1) + SecLen(set, k - 1)
RECURSIVE SecPosB(_, _)
SecPosB(set, k) ==
  IF k <= 1 THEN 0
  ELSE SecPosB(set, k - 1) + (IF SecIns(set, k - 1) < 0 THEN SecLen(set, k - 1) ELSE SecIns(set, k - 1))
SecEndA(set, k) == SecPosA(set, k) + SecLen(set, k)
Replacements(set) == { k \in 1..NSections(set) : SecIns(set, k) >= 0 }

\* C5: for one assoc and mode, positions that map to a number keep their order.
MapPosMonotone ==
  pc = "mapped" =>
    \A p1, p2 \in DOMAIN out.mapped :
      (p1 <= p2 /\ out.mapped[p1] # Null /\ out.mapped[p2] # Null)
        => (~IsErr(out.mapped[p1]) /\ ~IsErr(out.mapped[p2])
            /\ out.mapped[p1].num <= out.mapped[p2].num)

\* The section the walk of mapPos stops at for pos: the first one that ends
\* after pos, or an insertion at pos when assoc < 0.
Holds(set, k, pos, assoc) ==
  \/ SecEndA(set, k) > pos
  \/ SecIns(set, k) >= 0 /\ SecEndA(set, k) = pos /\ assoc < 0 /\ SecLen(set, k) = 0
LandsOn(set, k, pos, assoc) ==
  /\ Holds(set, k, pos, assoc)
  /\ \A j \in 1..(k - 1) : ~Holds(set, j, pos, assoc)

ModeCondition(mode, posA, endA, pos) ==
  \/ mode = TrackDel /\ posA < pos /\ pos < endA
  \/ mode = TrackBefore /\ posA < pos /\ pos <= endA
  \/ mode = TrackAfter /\ posA <= pos /\ pos < endA

\* C7: with a mode other than Simple the result is null exactly when a
\* replacement section containing pos meets the mode's condition, and the
\* Simple result otherwise.
MapPosNullExactly ==
  (pc = "mapped" /\ arg.mode # Simple) =>
    \A p \in DOMAIN out.mapped :
      LET deleted == \E k \in Replacements(setA) :
                       /\ SecPosA(setA, k) <= p /\ p <= SecEndA(setA, k)
                       /\ ModeCondition(arg.mode, SecPosA(setA, k), SecEndA(setA, k), p)
      IN IF deleted THEN out.mapped[p] = Null
         ELSE out.mapped[p] = mapPos(setA, p, arg.assoc, Simple)

\* C8: touchesRange is false when no replacement section meets [from, to],
\* "cover" when one strictly contains it, and true otherwise.
TouchesRangeResult ==
  pc = "touched" =>
    LET touching == { k \in Replacements(setA) :
                        SecPosA(setA, k) <= arg.to /\ SecEndA(setA, k) >= arg.from }
        covering == { k \in Replacements(setA) :
                        SecPosA(setA, k) < arg.from /\ SecEndA(setA, k) > arg.to }
    IN out.touches = (IF touching = { } THEN "false"
                      ELSE IF covering # { } THEN "cover" ELSE "true")

----------------------------------------------------------------------------
(* SpecOf: ChangeSet.of is given a list of plain changes and the same list *)
(* in another order, and both results are applied to the document.         *)

\* Lists of one to k plain changes; the text a change inserts tells which
\* element of the list it is.
RECURSIVE SpecLists(_, _, _)
SpecLists(n, maxIns, k) ==
  IF k = 0 THEN { << >> }
  ELSE LET shorter == SpecLists(n, maxIns, k - 1)
           last == ChangesWith(n, PlainInsertLines(10 + 5 * (k - 1), maxIns))
       IN shorter \cup { Append(l, c) : l \in { x \in shorter : Len(x) = k - 1 }, c \in last }

Orders(k) == { f \in [1..k -> 1..k] : \A i, j \in 1..k : f[i] = f[j] => i = j }
Reorder(list, order) == [i \in 1..Len(list) |-> list[order[i]]]

InitOf ==
  \E d \in PlainDocs(OfDocLen) :
    \E l \in SpecLists(d.length, OfIns, OfChanges) \ { << >> } :
      /\ doc = d
      /\ arg = [changes |-> l]
      /\ setA = Unset /\ setB = Unset /\ setC = Unset /\ out = Unset
      /\ pc = "start"

OfListed ==
  /\ pc = "start"
  /\ setA' = Of(arg.changes, doc.length)
  /\ pc' = "listed"
  /\ UNCHANGED << doc, setB, setC, arg, out >>

OfReordered ==
  /\ pc = "listed"
  /\ \E order \in Orders(Len(arg.changes)) :
       /\ arg' = [changes |-> arg.changes, order |-> order]
       /\ setB' = Of(Reorder(arg.changes, order), doc.length)
  /\ pc' = "reordered"
  /\ UNCHANGED << doc, setA, setC, out >>

ApplyBoth ==
  /\ pc = "reordered"
  /\ out' = [docA |-> IF IsErr(setA) THEN setA ELSE Apply(setA, doc),
             docB |-> IF IsErr(setB) THEN setB ELSE Apply(setB, doc)]
  /\ pc' = "applied"
  /\ UNCHANGED << doc, setA, setB, setC, arg >>

NextOf == OfListed \/ OfReordered \/ ApplyBoth

SpecOf == InitOf /\ [][NextOf]_vars

\* C9 as stated: every order of the list gives a change set that applies to
\* the same resulting document.
OfAnyOrderSameDocument ==
  pc = "applied" =>
    (~IsErr(out.docA) /\ ~IsErr(out.docB) /\ TextEq(out.docA, out.docB))

\* Two changes of the list that both insert text and whose ranges overlap or
\* touch.
Inserts(c) == textLength(c.insert) > 0
InsertsMeet(changes) ==
  \E i, j \in 1..Len(changes) :
    /\ i < j
    /\ Inserts(changes[i]) /\ Inserts(changes[j])
    /\ changes[i].to >= changes[j].from /\ changes[j].to >= changes[i].from

\* C9 as amended: when no two changes of the list that both insert text
\* overlap or touch, every order of the list gives a change set that applies
\* to the same resulting document.
OfOrderIndependent ==
  (pc = "applied" /\ ~InsertsMeet(arg.changes)) =>
    (~IsErr(out.docA) /\ ~IsErr(out.docB) /\ TextEq(out.docA, out.docB))

----------------------------------------------------------------------------
(* Spec: a change set built by ChangeSet.of or ChangeSet.fromJSON is       *)
(* extended by of, composed, mapped, inverted, filtered and sent through   *)
(* JSON, up to MaxSteps times.  doc is the document setA applies to.       *)

Sets(n, tag) == { Of(l, n) : l \in ChangeLists(n, tag, SeqIns) }

OneChangeSets(n, tag) ==
  { Of(<< c >>, n) : c \in ChangesWith(n, InsertLines(tag, SeqIns)) }

\* JSON values of at most two parts describing a document of n code units.
JSONParts(n) ==
  { Num(k) : k \in 0..n }
  \cup { [arr |-> k, strings |-> t] : k \in 0..n,
           t \in { << >>, << << >> >> } \cup InsertLines(10, SeqIns) }
JSONLength(part) == IF "num" \in DOMAIN part THEN part.num ELSE part.arr
JSONValues(n) ==
  { << >> : k \in { n } \cap { 0 } }
  \cup { << a >> : a \in { x \in JSONParts(n) : JSONLength(x) = n } }
  \cup { << p[1], p[2] >> :
           p \in { q \in JSONParts(n) \X JSONParts(n) : JSONLength(q[1]) + JSONLength(q[2]) = n } }

Init ==
  \E d \in Docs(SeqDocLen) :
    /\ doc = d
    /\ setA \in Sets(d.length, 10) \cup { FromJSON(j) : j \in JSONValues(d.length) }
    /\ setB = Unset /\ setC = Unset /\ out = Unset
    /\ arg = [steps |-> 0]
    /\ pc = "built"

Step(name) ==
  /\ arg.steps < MaxSteps
  /\ ~IsErr(setA) /\ ~IsErr(doc)
  /\ arg' = [steps |-> arg.steps + 1]
  /\ pc' = name

\* ChangeSet.of with the current set and one plain change as the spec.
OfStep ==
  /\ Step("of")
  /\ \E c \in ChangesWith(doc.length, InsertLines(25, SeqIns)), first \in BOOLEAN :
       setA' = Of(IF first THEN << c, setA >> ELSE << setA, c >>, doc.length)
  /\ UNCHANGED << doc, setB, setC, out >>

ComposeStep ==
  /\ Step("compose")
  /\ \E b \in OneChangeSets(CsNewLength(setA), 20) : setA' = Compose(setA, b)
  /\ UNCHANGED << doc, setB, setC, out >>

MapStep ==
  /\ Step("map")
  /\ \E b \in OneChangeSets(doc.length, 20), before \in BOOLEAN :
       /\ setA' = Map(setA, b, before)
       /\ doc' = Apply(b, doc)
  /\ UNCHANGED << setB, setC, out >>

InvertStep ==
  /\ Step("invert")
  /\ setA' = Invert(setA, doc)
  /\ doc' = Apply(setA, doc)
  /\ UNCHANGED << setB, setC, out >>

FilterStep ==
  /\ Step("filter")
  /\ \E from \in 0..doc.length :
       \E to \in from..doc.length :
         setA' = Filter(setA, << from, to >>).changes
  /\ UNCHANGED << doc, setB, setC, out >>

JSONStep ==
  /\ Step("json")
  /\ setA' = FromJSON(ToJSON(setA))
  /\ UNCHANGED << doc, setB, setC, out >>

Next ==
  \/ OfStep \/ ComposeStep \/ MapStep
  \/ InvertStep \/ FilterStep \/ JSONStep

Spec == Init /\ [][Next]_vars

\* C10: every change set built by of, compose, map, invert, filter and
\* fromJSON holds, at each section with ins > 0, an inserted text of length
\* ins, and holds no non-empty inserted text at a section with ins <= 0.
InsertedMatchesSections ==
  ~IsErr(setA) =>
    /\ Len(setA.inserted) <= NSections(setA)
    /\ \A k \in 1..NSections(setA) :
         IF SecIns(setA, k) > 0
         THEN /\ k <= Len(setA.inserted)
              /\ setA.inserted[k].length = SecIns(setA, k)
              /\ textLength(setA.inserted[k].text) = SecIns(setA, k)
         ELSE k <= Len(setA.inserted) =>
                (setA.inserted[k].length = 0 /\ textLength(setA.inserted[k].text) = 0)

----------------------------------------------------------------------------
(* States in which the case of each property above has happened.           *)

\* A document with a line break had a range replaced by text and was
\* restored by the inverse.
InvertRoundTripWitness ==
  /\ pc = "reverted"
  /\ Len(doc.text) > 1
  /\ \E k \in 1..NSections(setA) : SecLen(setA, k) > 0 /\ SecIns(setA, k) > 0
  /\ out.applied # doc
  /\ out.back = doc

\* Both change sets insert text at the same position and both rebased
\* compositions give the same changed document.
RebaseConvergesWitness ==
  /\ pc = "applied"
  /\ \E ka \in Replacements(setA), kb \in Replacements(setB) :
       /\ SecIns(setA, ka) > 0 /\ SecIns(setB, kb) > 0
       /\ SecPosA(setA, ka) = SecPosA(setB, kb)
  /\ ~IsErr(out.docLeft)
  /\ TextEq(out.docLeft, out.docRight)
  /\ out.docLeft # doc

\* The second change set deletes inside the text the first one inserted, and
\* the composition applied at once gives what the two give in turn.
ComposeIsSequenceWitness ==
  /\ pc = "done"
  /\ \E ka \in Replacements(setA), kb \in Replacements(setB) :
       /\ SecIns(setA, ka) > 0 /\ SecLen(setB, kb) > 0
       /\ SecPosB(setA, ka) <= SecPosA(setB, kb)
       /\ SecPosA(setB, kb) < SecPosB(setA, ka) + SecIns(setA, ka)
  /\ ~IsErr(out.docAC)
  /\ TextEq(out.docAC, out.docC)
  /\ out.docAC # doc

\* The two groupings give different section arrays that describe the same
\* changed ranges.
ComposeDescAssociativeWitness ==
  /\ pc = "done"
  /\ ~IsErr(out.left) /\ ~IsErr(out.right)
  /\ out.left.sections # out.right.sections
  /\ ChangedRanges(out.left) = ChangedRanges(out.right)
  /\ ChangedRanges(out.left) # << >>

\* Positions were mapped over an insertion and a deletion: some are reported
\* deleted, two collapse onto one position and two stay apart.
MapPosMonotoneWitness ==
  /\ pc = "mapped"
  /\ arg.mode = TrackDel
  /\ \E k \in Replacements(setA) : SecIns(setA, k) > 0
  /\ \E p \in DOMAIN out.mapped : out.mapped[p] = Null
  /\ \E p1, p2 \in DOMAIN out.mapped :
       /\ p1 < p2 /\ out.mapped[p1] # Null /\ out.mapped[p2] # Null
       /\ out.mapped[p1].num < out.mapped[p2].num
  /\ \E p1, p2 \in DOMAIN out.mapped :
       /\ p1 < p2 /\ out.mapped[p1] # Null /\ out.mapped[p2] # Null
       /\ out.mapped[p1].num = out.mapped[p2].num

TouchesRangeResultWitness ==
  /\ pc = "touched"
  /\ out.touches = "cover"
  /\ arg.from < arg.to

\* Two changes given out of order, one deleting across the point where the
\* other inserts, gave the same document in both orders.
OfOrderIndependentWitness ==
  /\ pc = "applied"
  /\ ~InsertsMeet(arg.changes)
  /\ Len(arg.changes) = 2
  /\ arg.order = << 2, 1 >>
  /\ Inserts(arg.changes[1]) /\ ~Inserts(arg.changes[2])
  /\ arg.changes[2].from < arg.changes[1].from
  /\ arg.changes[1].from < arg.changes[2].to
  /\ ~IsErr(out.docA)
  /\ TextEq(out.docA, out.docB)
  /\ out.docA # doc

\* After MaxSteps operations ending in map, the set holds an inserted text
\* with a line break and an empty text at a section that inserts nothing.
InsertedMatchesSectionsWitness ==
  /\ pc = "map" /\ arg.steps = MaxSteps
  /\ ~IsErr(setA)
  /\ \E k \in 1..NSections(setA) :
       SecIns(setA, k) > 0 /\ Len(setA.inserted[k].text) > 1
  /\ \E k \in 1..Len(setA.inserted) :
       SecIns(setA, k) <= 0 /\ setA.inserted[k].length = 0

----------------------------------------------------------------------------
(* SpecLengths: a document and two change sets of any lengths; apply,      *)
(* compose and ChangeSet.of are called whether or not the lengths agree.   *)

\* Longest document and longest change set of SpecLengths, and the longest
\* text one of its changes inserts.
LenDocLen == 2
LenIns == 1

InitLengths ==
  \E d \in PlainDocs(LenDocLen), n \in 0..(LenDocLen + 1), m \in 0..(LenDocLen + 1) :
    \E a \in PlainSets(n, 10, LenIns, 1), b \in PlainSets(m, 20, LenIns, 1) :
      /\ doc = d
      /\ setA = a
      /\ setB = b
      /\ setC = Unset /\ arg = Unset /\ out = Unset
      /\ pc = "start"

\* setA.apply(doc)
ApplyAnyLength ==
  /\ pc = "start"
  /\ out' = [result |-> Apply(setA, doc)]
  /\ pc' = "applied"
  /\ UNCHANGED << doc, setA, setB, setC, arg >>

\* setA.compose(setB)
ComposeAnyLength ==
  /\ pc = "start"
  /\ out' = [result |-> Compose(setA, setB)]
  /\ pc' = "composed"
  /\ UNCHANGED << doc, setA, setB, setC, arg >>

\* ChangeSet.of([setB], doc.length) and ChangeSet.of([change, setB], doc.length)
OfAnyLength ==
  /\ pc = "start"
  /\ \E l \in { << setB >> }
             \cup { << c, setB >> : c \in ChangesWith(doc.length, PlainInsertLines(30, LenIns)) } :
       /\ arg' = [changes |-> l]
       /\ out' = [result |-> Of(l, doc.length)]
  /\ pc' = "built"
  /\ UNCHANGED << doc, setA, setB, setC >>

NextLengths == ApplyAnyLength \/ ComposeAnyLength \/ OfAnyLength

SpecLengths == InitLengths /\ [][NextLengths]_vars

----------------------------------------------------------------------------
(* SpecJSON: a change set is serialized with toJSON and the value is read  *)
(* back with fromJSON.                                                     *)

\* Longest document of SpecJSON and the longest text one change inserts.
JSONDocLen == 2
JSONIns == 2

InitJSON ==
  \E n \in 0..JSONDocLen :
    /\ setA \in { Of(l, n) : l \in ChangeLists(n, 10, JSONIns) }
                \cup { FromJSON(j) : j \in JSONValues(n) }
    /\ doc = Unset /\ setB = Unset /\ setC = Unset /\ arg = Unset /\ out = Unset
    /\ pc = "start"

\* json = setA.toJSON()
Serialize ==
  /\ pc = "start"
  /\ out' = [json |-> ToJSON(setA)]
  /\ pc' = "serialized"
  /\ UNCHANGED << doc, setA, setB, setC, arg >>

\* setB = ChangeSet.fromJSON(json)
Parse ==
  /\ pc = "serialized"
  /\ setB' = FromJSON(out.json)
  /\ pc' = "parsed"
  /\ UNCHANGED << doc, setA, setC, arg, out >>

NextJSON == Serialize \/ Parse

SpecJSON == InitJSON /\ [][NextJSON]_vars

\* The text section k of a change set inserts: inserted[k], the empty text
\* where the array has no entry.
InsertedAt(set, k) == IF k <= Len(set.inserted) THEN set.inserted[k] ELSE TextEmpty

\* C12: fromJSON(cs.toJSON()) has the sections of cs and, for every section,
\* the inserted text of cs; an unchanged section is written as the number
\* len, a pure deletion as [len], a replacement as [len, line strings...].
JSONRoundTrip ==
  /\ pc \in { "serialized", "parsed" } =>
       /\ Len(out.json) = NSections(setA)
       /\ \A k \in 1..NSections(setA) :
            out.json[k] = IF SecIns(setA, k) < 0 THEN [num |-> SecLen(setA, k)]
                          ELSE IF SecIns(setA, k) = 0
                          THEN [arr |-> SecLen(setA, k), strings |-> << >>]
                          ELSE [arr |-> SecLen(setA, k), strings |-> setA.inserted[k].text]
  /\ pc = "parsed" =>
       /\ ~IsErr(setB)
       /\ setB.sections = setA.sections
       /\ \A k \in 1..NSections(setA) : InsertedAt(setB, k) = InsertedAt(setA, k)

\* A set with a deletion and a two-line insertion went through JSON and back.
JSONRoundTripWitness ==
  /\ pc = "parsed"
  /\ \E k \in 1..NSections(setA) : SecIns(setA, k) = 0
  /\ \E k \in 1..NSections(setA) : SecIns(setA, k) > 0 /\ Len(setA.inserted[k].text) = 2
  /\ Len(setB.inserted) # Len(setA.inserted)

----------------------------------------------------------------------------
(* SpecText: a document built by Text.of is changed by replace, slice and  *)
(* append with arguments inside the document; line queries and calls with  *)
(* arguments outside of it leave the document as it is.                    *)

\* Longest line of a document of SpecText, and the longest chain of
\* replace, slice and append.
TextLineLen == 1
MaxTextSteps == 1

\* n lines whose lengths run through 0..TextLineLen in steps of p.
TextLines(n, p) == [j \in 1..n |-> Line(j % 3, (j * p) % (TextLineLen + 1))]

\* Line counts around the sizes at which leaves are split and joined, and
\* one more line than Branch full leaves hold.
LineCounts ==
  { 1, 2, 3, Branch - 1, Branch, Branch + 1, 2 * Branch, 2 * Branch + 1, Branch * Branch + 1 }

\* The texts put into a document: nothing, a word, a word and a line break,
\* and more lines than one leaf holds.
InsertTexts ==
  { TextOf(l) : l \in { << << >> >>, << Line(20, 1) >>, << Line(20, 1), << >> >>,
                        TextLines(Branch + 1, 0) } }

\* Positions at both ends and in the middle of a document, and on both
\* sides of the line break after its first child.
Positions(t) ==
  ({ 0, 1, t.length \div 2, t.length - 1, t.length }
   \cup (IF IsLeaf(t) THEN { } ELSE { t.children[1].length, t.children[1].length + 1 }))
  \cap 0..t.length

\* The steps that leave a document to work on.
TextSteps == { "built", "replaced", "sliced", "appended" }

InitText ==
  \E n \in LineCounts, p \in 0..TextLineLen :
    /\ doc = TextOf(TextLines(n, p))
    /\ arg = [steps |-> 0, lines |-> TextLines(n, p)]
    /\ setA = Unset /\ setB = Unset /\ setC = Unset /\ out = Unset
    /\ pc = "built"

\* doc.replace(a, b, Text.of([""])).replace(a, a, t)
deleteThenInsert(t, a, b, text) == Replace(Replace(t, a, b, TextOf(<< << >> >>)), a, a, text)

ReplaceRange ==
  /\ arg.steps < MaxTextSteps
  /\ \E a \in Positions(doc), b \in Positions(doc), t \in InsertTexts :
       /\ a <= b
       /\ arg' = [steps |-> arg.steps + 1, from |-> a, to |-> b, text |-> t]
       /\ out' = [before |-> doc, twoSteps |-> deleteThenInsert(doc, a, b, t)]
       /\ doc' = Replace(doc, a, b, t)
  /\ pc' = "replaced"
  /\ UNCHANGED << setA, setB, setC >>

SliceRange ==
  /\ arg.steps < MaxTextSteps
  /\ \E a \in Positions(doc), b \in Positions(doc) :
       /\ a <= b
       /\ arg' = [steps |-> arg.steps + 1, from |-> a, to |-> b]
       /\ out' = [before |-> doc, string |-> sliceString(doc, a, b, 0, 0),
                  whole |-> Slice(doc, 0, doc.length)]
       /\ doc' = Slice(doc, a, b)
  /\ pc' = "sliced"
  /\ UNCHANGED << setA, setB, setC >>

AppendText ==
  /\ arg.steps < MaxTextSteps
  /\ \E t \in InsertTexts :
       /\ arg' = [steps |-> arg.steps + 1, text |-> t]
       /\ out' = [before |-> doc]
       /\ doc' = Append_(doc, t)
  /\ pc' = "appended"
  /\ UNCHANGED << setA, setB, setC >>

\* lineAt(p) for the positions of the document, and line(n) for the number
\* of each line found.
lineOfLine(t, l) == IF IsErr(l) THEN l ELSE lineNumbered(t, l.number)

LinesAt ==
  /\ pc \in TextSteps
  /\ arg' = [steps |-> arg.steps]
  /\ out' = [lineAt |-> [p \in Positions(doc) |-> lineAt(doc, p)],
             line |-> [p \in Positions(doc) |-> lineOfLine(doc, lineAt(doc, p))]]
  /\ pc' = "lines"
  /\ UNCHANGED << doc, setA, setB, setC >>

\* lineAt and line with arguments outside of the document.
LineOutside ==
  /\ pc \in TextSteps
  /\ \E p \in { -1, doc.length + 1 }, n \in { 0, Lines(doc) + 1 } :
       /\ arg' = [steps |-> arg.steps, pos |-> p, n |-> n]
       /\ out' = [lineAt |-> lineAt(doc, p), line |-> lineNumbered(doc, n)]
  /\ pc' = "outside"
  /\ UNCHANGED << doc, setA, setB, setC >>

\* replace with a range that leaves the document or ends before it starts.
ReplaceOutside ==
  /\ pc \in TextSteps
  /\ \E r \in { << -1, 0 >>, << -1, -1 >>, << 0, doc.length + 1 >>,
                << doc.length + 1, doc.length + 1 >>, << doc.length, 0 >> },
        t \in InsertTexts :
       /\ r[1] # r[2] \/ r[1] \notin 0..doc.length
       /\ arg' = [steps |-> arg.steps, from |-> r[1], to |-> r[2], text |-> t]
       /\ out' = [result |-> Replace(doc, r[1], r[2], t)]
  /\ pc' = "misplaced"
  /\ UNCHANGED << doc, setA, setB, setC >>

NextText ==
  \/ ReplaceRange \/ SliceRange \/ AppendText
  \/ LinesAt \/ LineOutside \/ ReplaceOutside

SpecText == InitText /\ [][NextText]_vars

RECURSIVE contentLength(_, _, _)
\* The length of lines lo..hi of a list of line strings with the line
\* breaks between them.
contentLength(lines, lo, hi) ==
  IF lo = hi THEN Len(lines[lo])
  ELSE contentLength(lines, lo, (lo + hi) \div 2) + 1
       + contentLength(lines, (lo + hi) \div 2 + 1, hi)

RECURSIVE CachedRight(_)
\* The cached length and lines of a text and of every node inside it are
\* those of its line strings.
CachedRight(t) ==
  IF IsLeaf(t) THEN t.length = textLength(t.text)
  ELSE /\ t.length = childrenLength(t.children, 1)
       /\ t.lines = sumLines(t.children, 1)
       /\ \A k \in 1..Len(t.children) : CachedRight(t.children[k])

\* C13: every Text reached through Text.of, replace, slice and append, and
\* every node inside it, caches the length and the number of lines of its
\* line strings; Text.of(ls) has the length and the lines of ls.
CachedLengthAndLines ==
  /\ ~IsErr(doc)
  /\ CachedRight(doc)
  /\ doc.length = contentLength(flatten(doc), 1, Len(flatten(doc)))
  /\ Lines(doc) = Len(flatten(doc))
  /\ pc = "built" => (doc.length = contentLength(arg.lines, 1, Len(arg.lines))
                      /\ Lines(doc) = Len(arg.lines))

\* A text of more lines than a leaf holds was put into a tree, giving a
\* tree again.
CachedLengthAndLinesWitness ==
  /\ pc = "replaced"
  /\ ~IsLeaf(out.before)
  /\ ~IsLeaf(arg.text)
  /\ arg.from < arg.to
  /\ ~IsLeaf(doc)

RECURSIVE joinLines(_, _, _)
\* Lines lo..hi of a list of line strings as one string, the line separator
\* between them.
joinLines(lines, lo, hi) ==
  IF lo = hi THEN lines[lo]
  ELSE joinLines(lines, lo, (lo + hi) \div 2) \o << NL >>
       \o joinLines(lines, (lo + hi) \div 2 + 1, hi)

\* The content of a text as one string.
Content(t) == joinLines(flatten(t), 1, Len(flatten(t)))

\* C14: doc.slice(a, b) has the length b - a and the content
\* doc.sliceString(a, b), and doc.slice(0, doc.length).eq(doc).
SliceIsSliceString ==
  pc = "sliced" =>
    /\ ~IsErr(doc)
    /\ doc.length = arg.to - arg.from
    /\ Content(doc) = out.string
    /\ out.string = StrSlice(Content(out.before), arg.from, arg.to)
    /\ Eq(out.whole, out.before)

\* A slice of a tree that starts and ends inside of two different children.
SliceIsSliceStringWitness ==
  /\ pc = "sliced"
  /\ ~IsLeaf(out.before)
  /\ 0 < arg.from /\ arg.from < out.before.children[1].length
  /\ arg.to > out.before.children[1].length + 1
  /\ NL \in { out.string[k] : k \in 1..Len(out.string) }

\* C15: deleting [a, b) and then inserting t at a gives a document that is
\* eq to the one the single replace gives.
ReplaceInTwoSteps ==
  pc = "replaced" =>
    /\ ~IsErr(doc) /\ ~IsErr(out.twoSteps)
    /\ Eq(out.twoSteps, doc)
    /\ Content(doc) = StrSlice(Content(out.before), 0, arg.from) \o Content(arg.text)
                      \o StrSlice(Content(out.before), arg.to, out.before.length)

\* A range across two children of a tree was replaced by a text with a
\* line break.
ReplaceInTwoStepsWitness ==
  /\ pc = "replaced"
  /\ ~IsLeaf(out.before)
  /\ arg.from < out.before.children[1].length
  /\ arg.to > out.before.children[1].length
  /\ Lines(arg.text) = 2

\* C16: l = doc.lineAt(p) has l.from <= p <= l.to, a text of l.to - l.from
\* code units that is line l.number of the document, a number that does not
\* decrease with p, and doc.line(l.number) returns the same line.
LineAtFindsLine ==
  pc = "lines" =>
    \A p \in DOMAIN out.lineAt :
      /\ ~IsErr(out.lineAt[p])
      /\ out.lineAt[p].from <= p /\ p <= out.lineAt[p].to
      /\ Len(out.lineAt[p].text) = out.lineAt[p].to - out.lineAt[p].from
      /\ out.lineAt[p].number \in 1..Lines(doc)
      /\ out.lineAt[p].text = flatten(doc)[out.lineAt[p].number]
      /\ \A q \in DOMAIN out.lineAt : p <= q => out.lineAt[p].number <= out.lineAt[q].number
      /\ out.line[p] = out.lineAt[p]

\* Lines were found in the second child of a tree.
LineAtFindsLineWitness ==
  /\ pc = "lines"
  /\ ~IsLeaf(doc)
  /\ \E p \in DOMAIN out.lineAt :
       /\ out.lineAt[p].number > Lines(doc.children[1])
       /\ out.lineAt[p].from < p

RECURSIVE NodeSizes(_, _)
\* Every leaf of t holds 1..Branch line strings and every branch 2..most
\* children.
NodeSizes(t, most) ==
  IF IsLeaf(t) THEN Len(t.text) \in 1..Branch
  ELSE /\ Len(t.children) \in 2..most
       /\ \A k \in 1..Len(t.children) : NodeSizes(t.children[k], most)

\* C18 as stated: each leaf holds between 1 and Branch line strings and each
\* branch between 2 and Branch children.
LeafAndBranchSizes == ~IsErr(doc) /\ NodeSizes(doc, Branch)

\* C18 as amended: each leaf holds between 1 and Branch line strings and
\* each branch at least 2 children, of which there can be more than Branch.
LeafSizesAndBranchMinimum == ~IsErr(doc) /\ NodeSizes(doc, Lines(doc))

\* A range was replaced in a tree of more than Branch children, and the
\* tree was built again from its parts.
LeafSizesAndBranchMinimumWitness ==
  /\ pc = "replaced"
  /\ ~IsLeaf(out.before)
  /\ Len(out.before.children) > Branch
  /\ arg.from < arg.to
  /\ ~IsLeaf(doc)
  /\ doc.children # out.before.children

\* ---------------------------------------------------------------------
\* RangeSet: values, ranges, chunks, layered sets and the builder
\* (rangeset.ts).  A RangeValue is a record of its startSide, endSide, point
\* and mapMode; a set is a record whose nextLayer is a set again, ending in
\* RangeSetEmpty; a builder is a record of the fields of RangeSetBuilder,
\* where fromIsNull tells that finishInner has set this.from to null.
\* ---------------------------------------------------------------------

ChunkSize == 250

RangeValue(startSide, endSide, point) ==
  [startSide |-> startSide, endSide |-> endSide, point |-> point, mapMode |-> TrackDel]

Range(from, to, value) == [from |-> from, to |-> to, value |-> value]

IsNull(x) == "null" \in DOMAIN x

\* a.from - b.from || a.value.startSide - b.value.startSide
cmpRange(a, b) ==
  IF a.from - b.from # 0 THEN a.from - b.from ELSE a.value.startSide - b.value.startSide

Chunk(from, to, value, maxPoint) ==
  [from |-> from, to |-> to, value |-> value, maxPoint |-> maxPoint]

chunkLength(chunk) == chunk.to[Len(chunk.to)]

RangeSetEmpty == [empty |-> TRUE, maxPoint |-> -1]

isEmpty(set) == "empty" \in DOMAIN set

RangeSetCreate(chunkPos, chunk, nextLayer, maxPoint) ==
  [chunkPos |-> chunkPos, chunk |-> chunk, nextLayer |-> nextLayer, maxPoint |-> maxPoint]

chunkEnd(set, index) == set.chunkPos[index + 1] + chunkLength(set.chunk[index + 1])

RangeSetBuilder ==
  [chunks |-> << >>, chunkPos |-> << >>, chunkStart |-> -1, last |-> Null,
   lastFrom |-> -Far, lastTo |-> -Far, from |-> << >>, to |-> << >>, value |-> << >>,
   maxPoint |-> -1, setMaxPoint |-> -1, nextLayer |-> Null, fromIsNull |-> FALSE]

\* A variant of finishChunk that does not raise setMaxPoint to the maxPoint
\* of the finished chunk.
finishChunkOwnMax(b, newArrays) ==
  [b EXCEPT !.chunks = Append(b.chunks, Chunk(b.from, b.to, b.value, b.maxPoint)),
            !.chunkPos = Append(b.chunkPos, b.chunkStart),
            !.chunkStart = -1,
            !.maxPoint = -1,
            !.from = IF newArrays THEN << >> ELSE b.from,
            !.to = IF newArrays THEN << >> ELSE b.to,
            !.value = IF newArrays THEN << >> ELSE b.value]

finishChunk(b, newArrays) ==
  [b EXCEPT !.chunks = Append(b.chunks, Chunk(b.from, b.to, b.value, b.maxPoint)),
            !.chunkPos = Append(b.chunkPos, b.chunkStart),
            !.chunkStart = -1,
            !.setMaxPoint = Max(b.setMaxPoint, b.maxPoint),
            !.maxPoint = -1,
            !.from = IF newArrays THEN << >> ELSE b.from,
            !.to = IF newArrays THEN << >> ELSE b.to,
            !.value = IF newArrays THEN << >> ELSE b.value]

\* The part of addInner after the chunk of ChunkSize ranges was finished:
\* b.chunkStart is set by the first range of a chunk.
pushRange(b, from, to, value) ==
  [b EXCEPT !.chunkStart = IF b.chunkStart < 0 THEN from ELSE b.chunkStart,
            !.from = Append(b.from, from - (IF b.chunkStart < 0 THEN from ELSE b.chunkStart)),
            !.to = Append(b.to, to - (IF b.chunkStart < 0 THEN from ELSE b.chunkStart)),
            !.last = value,
            !.lastFrom = from,
            !.lastTo = to,
            !.value = Append(b.value, value),
            !.maxPoint = IF value.point THEN Max(b.maxPoint, to - from) ELSE b.maxPoint]

\* from - this.lastTo || value.startSide - this.last!.endSide
addDiff(b, from, value) ==
  IF from - b.lastTo # 0 THEN from - b.lastTo ELSE value.startSide - b.last.endSide

\* from - this.lastFrom || value.startSide - this.last!.startSide
addOrder(b, from, value) ==
  IF from - b.lastFrom # 0 THEN from - b.lastFrom ELSE value.startSide - b.last.startSide

\* addInner without the test of the order of the ranges.
addInnerUnchecked(b, from, to, value) ==
  IF IsNull(b.last) /\ (from = b.lastTo \/ from = b.lastFrom) THEN Throw("TypeError")
  ELSE IF addDiff(b, from, value) < 0 THEN [added |-> FALSE, builder |-> b]
  ELSE [added |-> TRUE,
        builder |-> pushRange(IF Len(b.from) = ChunkSize THEN finishChunk(b, TRUE) ELSE b,
                              from, to, value)]

\* The result is an error, or whether the range was added and the builder
\* after the call.  Reading a side of the last value when there is none,
\* and the length of this.from when it is null, is a TypeError.
addInner(b, from, to, value) ==
  IF IsNull(b.last) /\ (from = b.lastTo \/ from = b.lastFrom) THEN Throw("TypeError")
  ELSE IF addDiff(b, from, value) <= 0 /\ addOrder(b, from, value) < 0
    THEN Throw("Ranges must be added sorted by from position and startSide")
  ELSE IF addDiff(b, from, value) < 0 THEN [added |-> FALSE, builder |-> b]
  ELSE IF b.fromIsNull THEN Throw("TypeError")
  ELSE [added |-> TRUE,
        builder |-> pushRange(IF Len(b.from) = ChunkSize THEN finishChunk(b, TRUE) ELSE b,
                              from, to, value)]

withNextLayer(b, next) == IF IsErr(next) THEN next ELSE [b EXCEPT !.nextLayer = next]

RECURSIVE add(_, _, _, _)
addSpill(b, r, from, to, value) ==
  IF IsErr(r) THEN r
  ELSE IF r.added THEN r.builder
  ELSE withNextLayer(b, add(IF IsNull(b.nextLayer) THEN RangeSetBuilder ELSE b.nextLayer,
                            from, to, value))

add(b, from, to, value) == addSpill(b, addInner(b, from, to, value), from, to, value)

finishCreate(b, inner) == RangeSetCreate(b.chunkPos, b.chunks, inner, b.setMaxPoint)

RECURSIVE finishInner(_, _)
finishChunked(b, next) ==
  IF Len(b.chunks) = 0 THEN next
  ELSE finishCreate(b, IF IsNull(b.nextLayer) THEN next ELSE finishInner(b.nextLayer, next))

finishInner(b, next) ==
  finishChunked(IF Len(b.from) > 0 THEN finishChunk(b, FALSE) ELSE b, next)

finishBuilder(b) == finishInner(b, RangeSetEmpty)

\* The builder that finishInner leaves behind: the last chunk is finished,
\* and when there is a chunk the next layer is finished and this.from is null.
RECURSIVE finishedBuilder(_)
finishedChunked(b) ==
  IF Len(b.chunks) = 0 THEN b
  ELSE [b EXCEPT !.fromIsNull = TRUE,
                 !.nextLayer = IF IsNull(b.nextLayer) THEN Null
                               ELSE finishedBuilder(b.nextLayer)]

finishedBuilder(b) == finishedChunked(IF Len(b.from) > 0 THEN finishChunk(b, FALSE) ELSE b)

\* for (let range of ranges) build.add(range.from, range.to, range.value),
\* over ranges[lo + 1 .. hi]; an error ends the loop.
RECURSIVE addAll(_, _, _, _)
addAll(b, ranges, lo, hi) ==
  IF IsErr(b) \/ hi <= lo THEN b
  ELSE IF hi - lo = 1 THEN add(b, ranges[hi].from, ranges[hi].to, ranges[hi].value)
  ELSE addAll(addAll(b, ranges, lo, (lo + hi) \div 2), ranges, (lo + hi) \div 2, hi)

chunkRanges(pos, chunk) ==
  [i \in 1..Len(chunk.value) |->
     Range(pos + chunk.from[i], pos + chunk.to[i], chunk.value[i])]

\* The ranges of chunks i.. of one layer, in the order of the arrays.
RECURSIVE layerRanges(_, _)
layerRanges(set, i) ==
  IF i > Len(set.chunk) THEN << >>
  ELSE chunkRanges(set.chunkPos[i], set.chunk[i]) \o layerRanges(set, i + 1)

\* The ranges of all layers of a set, layer after layer.
RECURSIVE setRanges(_)
setRanges(set) ==
  IF isEmpty(set) THEN << >> ELSE layerRanges(set, 1) \o setRanges(set.nextLayer)

Occurrences(s, x) == Cardinality({ i \in DOMAIN s : s[i] = x })

Elements(s) == { s[i] : i \in DOMAIN s }

SameRanges(s, t) ==
  /\ Len(s) = Len(t)
  /\ \A x \in Elements(s) \cup Elements(t) : Occurrences(s, x) = Occurrences(t, x)

\* ---------------------------------------------------------------------
\* Cursors over a RangeSet (rangeset.ts): a LayerCursor walks the chunks of
\* one layer, a HeapCursor keeps the cursors of all layers in a heap.  The
\* skip of a LayerCursor is the set of the chunks to skip, empty when
\* the cursor is created without one; a chunk stands for every chunk object
\* of that content.
\* ---------------------------------------------------------------------

findIndexDiff(chunk, pos, side, end, mid) ==
  IF end
  THEN (IF chunk.to[mid + 1] - pos # 0 THEN chunk.to[mid + 1] - pos
        ELSE chunk.value[mid + 1].endSide - side)
  ELSE (IF chunk.from[mid + 1] - pos # 0 THEN chunk.from[mid + 1] - pos
        ELSE chunk.value[mid + 1].startSide - side)

RECURSIVE findIndexLoop(_, _, _, _, _, _)
findIndexLoop(chunk, pos, side, end, lo, hi) ==
  IF lo = hi THEN lo
  ELSE IF (lo + hi) \div 2 = lo
    THEN (IF findIndexDiff(chunk, pos, side, end, lo) >= 0 THEN lo ELSE hi)
  ELSE IF findIndexDiff(chunk, pos, side, end, (lo + hi) \div 2) >= 0
    THEN findIndexLoop(chunk, pos, side, end, lo, (lo + hi) \div 2)
  ELSE findIndexLoop(chunk, pos, side, end, (lo + hi) \div 2 + 1, hi)

findIndex(chunk, pos, side, end, startAt) ==
  findIndexLoop(chunk, pos, side, end, startAt, Len(chunk.value))

LayerCursor(layer, minPoint, rank) ==
  [layer |-> layer, minPoint |-> minPoint, rank |-> rank,
   from |-> 0, to |-> 0, value |-> Null, chunkIndex |-> 0, rangeIndex |-> 0, skip |-> {}]

cursorStartSide(cur) == IF IsNull(cur.value) THEN 0 ELSE cur.value.startSide
cursorEndSide(cur) == IF IsNull(cur.value) THEN 0 ELSE cur.value.endSide

setRangeIndex(cur, index) ==
  IF index = Len(cur.layer.chunk[cur.chunkIndex + 1].value)
  THEN [cur EXCEPT !.chunkIndex = cur.chunkIndex + 1, !.rangeIndex = 0]
  ELSE [cur EXCEPT !.rangeIndex = index]

\* The assignments of one round of the loop of LayerCursor.next.
layerLoad(cur) ==
  setRangeIndex(
    [cur EXCEPT !.from = cur.layer.chunkPos[cur.chunkIndex + 1]
                           + cur.layer.chunk[cur.chunkIndex + 1].from[cur.rangeIndex + 1],
                !.to = cur.layer.chunkPos[cur.chunkIndex + 1]
                         + cur.layer.chunk[cur.chunkIndex + 1].to[cur.rangeIndex + 1],
                !.value = cur.layer.chunk[cur.chunkIndex + 1].value[cur.rangeIndex + 1]],
    cur.rangeIndex + 1)

RECURSIVE layerNext(_)
layerLoaded(cur) ==
  IF cur.minPoint < 0 \/ (cur.value.point /\ cur.to - cur.from >= cur.minPoint) THEN cur
  ELSE layerNext(cur)

layerNext(cur) ==
  IF cur.chunkIndex = Len(cur.layer.chunk)
  THEN [cur EXCEPT !.from = Far, !.to = Far, !.value = Null]
  ELSE layerLoaded(layerLoad(cur))

\* The first loop of gotoInner: the cursor and the flag forward after it.
RECURSIVE gotoChunk(_, _, _)
gotoChunk(cur, pos, forward) ==
  IF cur.chunkIndex < Len(cur.layer.chunk)
     /\ (cur.layer.chunk[cur.chunkIndex + 1] \in cur.skip
         \/ chunkEnd(cur.layer, cur.chunkIndex) < pos
         \/ cur.layer.chunk[cur.chunkIndex + 1].maxPoint < cur.minPoint)
  THEN gotoChunk([cur EXCEPT !.chunkIndex = cur.chunkIndex + 1], pos, FALSE)
  ELSE [cur |-> cur, forward |-> forward]

gotoRange(cur, forward, rangeIndex) ==
  IF ~forward \/ cur.rangeIndex < rangeIndex THEN setRangeIndex(cur, rangeIndex) ELSE cur

gotoFound(at, pos, side) ==
  layerNext(
    IF at.cur.chunkIndex < Len(at.cur.layer.chunk)
    THEN gotoRange(at.cur, at.forward,
                   findIndex(at.cur.layer.chunk[at.cur.chunkIndex + 1],
                             pos - at.cur.layer.chunkPos[at.cur.chunkIndex + 1],
                             side, TRUE, 0))
    ELSE at.cur)

gotoInner(cur, pos, side, forward) == gotoFound(gotoChunk(cur, pos, forward), pos, side)

layerGoto(cur, pos, side) ==
  gotoInner([cur EXCEPT !.chunkIndex = 0, !.rangeIndex = 0], pos, side, FALSE)

nextChunk(cur) ==
  layerNext([cur EXCEPT !.chunkIndex = cur.chunkIndex + 1, !.rangeIndex = 0])

\* this.from - other.from || this.startSide - other.startSide ||
\* this.rank - other.rank || this.to - other.to || this.endSide - other.endSide
compare(a, b) ==
  IF a.from - b.from # 0 THEN a.from - b.from
  ELSE IF cursorStartSide(a) - cursorStartSide(b) # 0
    THEN cursorStartSide(a) - cursorStartSide(b)
  ELSE IF a.rank - b.rank # 0 THEN a.rank - b.rank
  ELSE IF a.to - b.to # 0 THEN a.to - b.to
  ELSE cursorEndSide(a) - cursorEndSide(b)

\* heapBubble that leaves the heap as it is.
heapBubbleNone(heap, index) == heap

\* The child that heapBubble compares heap[index] with: the second one when
\* there is one and the first is not below it.
bubbleChild(heap, childIndex) ==
  IF childIndex + 1 < Len(heap) /\ compare(heap[childIndex + 1], heap[childIndex + 2]) >= 0
  THEN childIndex + 1
  ELSE childIndex

RECURSIVE heapBubble(_, _)
bubbleSwap(heap, index, childIndex) ==
  IF compare(heap[index + 1], heap[childIndex + 1]) < 0 THEN heap
  ELSE heapBubble([heap EXCEPT ![childIndex + 1] = heap[index + 1],
                               ![index + 1] = heap[childIndex + 1]],
                  childIndex)

heapBubble(heap, index) ==
  IF 2 * index + 1 >= Len(heap) THEN heap
  ELSE bubbleSwap(heap, index, bubbleChild(heap, 2 * index + 1))

\* The cursors of the layers of one set, from the first layer on.
RECURSIVE layerCursors(_, _, _)
layerCursors(set, minPoint, rank) ==
  IF isEmpty(set) THEN << >>
  ELSE (IF set.maxPoint >= minPoint THEN << LayerCursor(set, minPoint, rank) >> ELSE << >>)
         \o layerCursors(set.nextLayer, minPoint, rank)

RECURSIVE heapOf(_, _, _)
heapOf(sets, minPoint, i) ==
  IF i >= Len(sets) THEN << >>
  ELSE layerCursors(sets[i + 1], minPoint, i) \o heapOf(sets, minPoint, i + 1)

HeapCursor(heap) == [heap |-> heap, from |-> 0, to |-> 0, value |-> Null, rank |-> 0]

heapOrOnly(heap) == IF Len(heap) = 1 THEN heap[1] ELSE HeapCursor(heap)

HeapCursorFrom(sets, minPoint) == heapOrOnly(heapOf(sets, minPoint, 0))

IsHeap(cur) == "heap" \in DOMAIN cur

\* for (let i = this.heap.length >> 1; i >= 0; i--) heapBubble(this.heap, i)
RECURSIVE heapify(_, _)
heapify(heap, i) == IF i < 0 THEN heap ELSE heapify(heapBubble(heap, i), i - 1)

heapNextTop(heap) ==
  heapBubble(IF IsNull(heap[1].value) THEN heap
             ELSE [heap EXCEPT ![1] = layerNext(heap[1])], 0)

heapNext(cur) ==
  IF Len(cur.heap) = 0
  THEN [cur EXCEPT !.from = Far, !.to = Far, !.value = Null, !.rank = -1]
  ELSE [cur EXCEPT !.from = cur.heap[1].from, !.to = cur.heap[1].to,
                   !.value = cur.heap[1].value, !.rank = cur.heap[1].rank,
                   !.heap = heapNextTop(cur.heap)]

heapGoto(cur, pos, side) ==
  heapNext([cur EXCEPT !.heap =
              heapify([k \in 1..Len(cur.heap) |-> layerGoto(cur.heap[k], pos, side)],
                      Len(cur.heap) \div 2)])

cursorGoto(cur, pos, side) ==
  IF IsHeap(cur) THEN heapGoto(cur, pos, side) ELSE layerGoto(cur, pos, side)

cursorNext(cur) == IF IsHeap(cur) THEN heapNext(cur) ELSE layerNext(cur)

\* RangeSet.iter(from)
iter(set, from) == cursorGoto(HeapCursorFrom(<< set >>, -1), from, -Far)

\* ---------------------------------------------------------------------
\* SpanCursor (rangeset.ts): a cursor over the sets of a group that keeps the
\* active ranges and the current point.  Indices are those of the source,
\* from 0; minActive is -1 when no range is active.
\* ---------------------------------------------------------------------

layerForward(cur, pos, side) ==
  IF (IF cur.to - pos # 0 THEN cur.to - pos ELSE cursorEndSide(cur) - side) < 0
  THEN gotoInner(cur, pos, side, TRUE)
  ELSE cur

heapForwarded(cur, pos, side) ==
  IF (IF cur.to - pos # 0 THEN cur.to - pos ELSE cursorEndSide(cur) - side) < 0
  THEN heapNext(cur)
  ELSE cur

heapForward(cur, pos, side) ==
  heapForwarded([cur EXCEPT !.heap =
                   heapify([k \in 1..Len(cur.heap) |-> layerForward(cur.heap[k], pos, side)],
                           Len(cur.heap) \div 2)],
                pos, side)

cursorForward(cur, pos, side) ==
  IF IsHeap(cur) THEN heapForward(cur, pos, side) ELSE layerForward(cur, pos, side)

\* HeapCursor.from(sets, skip, minPoint)
HeapCursorSkipping(sets, skip, minPoint) ==
  heapOrOnly([k \in 1..Len(heapOf(sets, minPoint, 0)) |->
                [heapOf(sets, minPoint, 0)[k] EXCEPT !.skip = skip]])

removeAt(array, index) ==
  SubSeq(array, 1, index) \o SubSeq(array, index + 2, Len(array))

insertAt(array, index, value) ==
  SubSeq(array, 1, index) \o << value >> \o SubSeq(array, index + 1, Len(array))

RECURSIVE findMinLoop(_, _, _, _, _)
findMinLoop(value, array, i, found, foundPos) ==
  IF i >= Len(array) THEN found
  ELSE IF (IF array[i + 1] - foundPos # 0 THEN array[i + 1] - foundPos
           ELSE value[i + 1].endSide - value[found + 1].endSide) < 0
    THEN findMinLoop(value, array, i + 1, i, array[i + 1])
  ELSE findMinLoop(value, array, i + 1, found, foundPos)

findMinIndex(value, array) == findMinLoop(value, array, 0, -1, Far)

SpanCursor(sets, skip, minPoint) ==
  [cursor |-> HeapCursorSkipping(sets, skip, minPoint), minPoint |-> minPoint,
   active |-> << >>, activeTo |-> << >>, activeRank |-> << >>, minActive |-> -1,
   point |-> Null, pointFrom |-> 0, pointRank |-> 0,
   to |-> -Far, endSide |-> 0, openStart |-> -1]

removeActive(sc, index) ==
  [sc EXCEPT !.active = removeAt(sc.active, index),
             !.activeTo = removeAt(sc.activeTo, index),
             !.activeRank = removeAt(sc.activeRank, index),
             !.minActive = findMinIndex(removeAt(sc.active, index), removeAt(sc.activeTo, index))]

\* The place where addActive puts the range of the cursor: behind the active
\* ranges of lower rank, and of this rank and a nearer end.
RECURSIVE activeIndex(_, _)
activeIndex(sc, i) ==
  IF i < Len(sc.activeRank)
     /\ (IF sc.cursor.rank - sc.activeRank[i + 1] # 0 THEN sc.cursor.rank - sc.activeRank[i + 1]
         ELSE sc.cursor.to - sc.activeTo[i + 1]) > 0
  THEN activeIndex(sc, i + 1)
  ELSE i

addActiveAt(sc, i) ==
  [sc EXCEPT !.active = insertAt(sc.active, i, sc.cursor.value),
             !.activeTo = insertAt(sc.activeTo, i, sc.cursor.to),
             !.activeRank = insertAt(sc.activeRank, i, sc.cursor.rank),
             !.trackOpen = IF sc.tracking THEN insertAt(sc.trackOpen, i, sc.cursor.from)
                           ELSE sc.trackOpen,
             !.minActive = findMinIndex(insertAt(sc.active, i, sc.cursor.value),
                                        insertAt(sc.activeTo, i, sc.cursor.to))]

addActive(sc) == addActiveAt(sc, activeIndex(sc, 0))

\* SpanCursor.forward: the active ranges that end before (pos, side) are
\* removed, and the cursor is moved forward.
RECURSIVE spanForward(_, _, _)
spanForward(sc, pos, side) ==
  IF sc.minActive > -1
     /\ (IF sc.activeTo[sc.minActive + 1] - pos # 0 THEN sc.activeTo[sc.minActive + 1] - pos
         ELSE sc.active[sc.minActive + 1].endSide - side) < 0
  THEN spanForward(removeActive(sc, sc.minActive), pos, side)
  ELSE [sc EXCEPT !.cursor = cursorForward(sc.cursor, pos, side)]

\* The first test of the loop of next: the active range that ends first
\* ends before the range of the cursor starts.
minActiveEnds(sc) ==
  sc.minActive > -1
  /\ (IF sc.activeTo[sc.minActive + 1] - sc.cursor.from # 0
      THEN sc.activeTo[sc.minActive + 1] - sc.cursor.from
      ELSE sc.active[sc.minActive + 1].endSide - cursorStartSide(sc.cursor)) < 0

\* A variant of newPoint that does not move the cursor forward to the end of
\* the point.
newPointUnforwarded(sc) ==
  [sc EXCEPT !.point = sc.cursor.value, !.pointFrom = sc.cursor.from,
             !.pointRank = sc.cursor.rank, !.to = sc.cursor.to,
             !.endSide = sc.cursor.value.endSide,
             !.cursor = cursorNext(sc.cursor)]

newPoint(sc) ==
  spanForward([sc EXCEPT !.point = sc.cursor.value, !.pointFrom = sc.cursor.from,
                         !.pointRank = sc.cursor.rank, !.to = sc.cursor.to,
                         !.endSide = sc.cursor.value.endSide,
                         !.cursor = cursorNext(sc.cursor)],
              sc.cursor.to, sc.cursor.value.endSide)

\* The loop of SpanCursor.next; from is the old this.to and wasPoint tells
\* whether there was a point.
RECURSIVE spanLoop(_, _, _)
spanLoop(sc, from, wasPoint) ==
  IF minActiveEnds(sc)
  THEN (IF sc.activeTo[sc.minActive + 1] > from
        THEN [sc EXCEPT !.to = sc.activeTo[sc.minActive + 1],
                        !.endSide = sc.active[sc.minActive + 1].endSide]
        ELSE spanLoop([removeActive(sc, sc.minActive) EXCEPT
                         !.trackOpen = IF sc.tracking THEN removeAt(sc.trackOpen, sc.minActive)
                                       ELSE sc.trackOpen],
                      from, wasPoint))
  ELSE IF IsNull(sc.cursor.value) THEN [sc EXCEPT !.to = Far, !.endSide = Far]
  ELSE IF sc.cursor.from > from
    THEN [sc EXCEPT !.to = sc.cursor.from, !.endSide = cursorStartSide(sc.cursor)]
  ELSE IF ~sc.cursor.value.point
    THEN spanLoop([addActive(sc) EXCEPT !.cursor = cursorNext(sc.cursor)], from, wasPoint)
  ELSE IF wasPoint /\ sc.cursor.to = sc.to /\ sc.cursor.from < sc.cursor.to
    THEN spanLoop([sc EXCEPT !.cursor = cursorNext(sc.cursor)], from, wasPoint)
  ELSE newPoint(sc)

\* for (let i = trackOpen.length - 1; i >= 0 && trackOpen[i] < from; i--) this.openStart++
RECURSIVE openBefore(_, _, _)
openBefore(trackOpen, from, i) ==
  IF i >= 0 /\ trackOpen[i + 1] < from THEN 1 + openBefore(trackOpen, from, i - 1) ELSE 0

spanTracked(sc, from) ==
  [k \in DOMAIN sc \ { "tracking", "trackOpen" } |->
     IF k = "openStart" /\ sc.tracking THEN openBefore(sc.trackOpen, from, Len(sc.trackOpen) - 1)
     ELSE sc[k]]

spanNext(sc) ==
  spanTracked(spanLoop([k \in DOMAIN sc \cup { "tracking", "trackOpen" } |->
                          IF k = "tracking" THEN sc.openStart < 0
                          ELSE IF k = "trackOpen" THEN << >>
                          ELSE IF k = "point" THEN Null
                          ELSE sc[k]],
                       sc.to, ~IsNull(sc.point)),
              sc.to)

spanGoto(sc, pos, side) ==
  spanNext([sc EXCEPT !.cursor = cursorGoto(sc.cursor, pos, side),
                      !.active = << >>, !.activeTo = << >>, !.activeRank = << >>,
                      !.minActive = -1, !.to = pos, !.endSide = side, !.openStart = -1])

\* The active ranges of the rank of the point or above that do not end before it.
RECURSIVE activeForPointFrom(_, _, _)
activeForPointFrom(sc, to, i) ==
  IF i < 0 \/ sc.activeRank[i + 1] < sc.pointRank THEN << >>
  ELSE activeForPointFrom(sc, to, i - 1)
         \o (IF sc.activeTo[i + 1] > to
                \/ (sc.activeTo[i + 1] = to /\ sc.active[i + 1].endSide >= sc.point.endSide)
             THEN << sc.active[i + 1] >> ELSE << >>)

activeForPoint(sc, to) ==
  IF Len(sc.active) = 0 THEN sc.active ELSE activeForPointFrom(sc, to, Len(sc.active) - 1)

RECURSIVE openEndFrom(_, _, _)
openEndFrom(sc, to, i) ==
  IF i >= 0 /\ sc.activeTo[i + 1] > to THEN 1 + openEndFrom(sc, to, i - 1) ELSE 0

openEnd(sc, to) == openEndFrom(sc, to, Len(sc.activeTo) - 1)

\* ---------------------------------------------------------------------
\* RangeSet.of, update, map and join (rangeset.ts).  A filter function is
\* a record naming what it keeps.
\* ---------------------------------------------------------------------

\* The place of r in a list sorted by cmpRange, behind the ranges equal to it.
RECURSIVE insertSorted(_, _, _)
insertSorted(sorted, r, i) ==
  IF i > Len(sorted) \/ cmpRange(sorted[i], r) > 0
  THEN SubSeq(sorted, 1, i - 1) \o << r >> \o SubSeq(sorted, i, Len(sorted))
  ELSE insertSorted(sorted, r, i + 1)

\* ranges.slice().sort(cmpRange), a stable sort.
RECURSIVE sortRanges(_, _)
sortRanges(ranges, n) ==
  IF n = 0 THEN << >> ELSE insertSorted(sortRanges(ranges, n - 1), ranges[n], 1)

IsSorted(ranges) ==
  \A i \in 1..Len(ranges) - 1 : cmpRange(ranges[i], ranges[i + 1]) <= 0

\* A variant of lazySort that leaves the ranges as they are.
lazySortNone(ranges) == ranges

lazySort(ranges) == IF IsSorted(ranges) THEN ranges ELSE sortRanges(ranges, Len(ranges))

finishUnlessThrown(b) == IF IsErr(b) THEN b ELSE finishBuilder(b)

ofInOrder(ranges) == finishUnlessThrown(addAll(RangeSetBuilder, ranges, 0, Len(ranges)))

RangeSetOf(ranges, sort) == ofInOrder(IF sort THEN lazySort(ranges) ELSE ranges)

RECURSIVE setLength(_)
setLength(set) ==
  IF isEmpty(set) \/ Len(set.chunk) = 0 THEN 0
  ELSE Max(chunkEnd(set, Len(set.chunk) - 1), setLength(set.nextLayer))

addChunk(b, from, chunk) ==
  IF (IF from - b.lastTo # 0 THEN from - b.lastTo
      ELSE chunk.value[1].startSide - b.last.endSide) < 0
  THEN [added |-> FALSE, builder |-> b]
  ELSE [added |-> TRUE,
        builder |->
          [(IF Len(b.from) > 0 THEN finishChunk(b, TRUE) ELSE b) EXCEPT
             !.setMaxPoint = Max(@, chunk.maxPoint),
             !.chunks = Append(@, chunk),
             !.chunkPos = Append(@, from),
             !.last = chunk.value[Len(chunk.value)],
             !.lastFrom = chunk.from[Len(chunk.value)] + from,
             !.lastTo = chunk.to[Len(chunk.value)] + from]]

NoFilter == Null

filterKeeps(filter, from, to, value) ==
  CASE filter.keep = "nothing" -> FALSE
    [] filter.keep = "points" -> value.point
    [] filter.keep = "nonempty" -> from < to

\* !filter || filterFrom > to || filterTo < from
unfiltered(filter, filterFrom, filterTo, from, to) ==
  IsNull(filter) \/ filterFrom > to \/ filterTo < from

\* The branch of the loop of update that takes the next range to add.
updateAdded(st, range, r) ==
  IF IsErr(r) THEN r
  ELSE [st EXCEPT !.i = st.i + 1, !.builder = r.builder,
                  !.spill = IF r.added THEN st.spill ELSE Append(st.spill, range)]

\* The branch that takes the range of the cursor when the filter keeps it.
updateKept(st, r) ==
  IF IsErr(r) THEN r
  ELSE [st EXCEPT !.cur = layerNext(st.cur), !.builder = r.builder,
                  !.spill = IF r.added THEN st.spill
                            ELSE Append(st.spill, Range(st.cur.from, st.cur.to, st.cur.value))]

\* st.calls are the ranges that the filter function was called with.
filterCalled(filter, filterFrom, filterTo, st) ==
  IF unfiltered(filter, filterFrom, filterTo, st.cur.from, st.cur.to) THEN st
  ELSE [st EXCEPT !.calls = Append(st.calls, Range(st.cur.from, st.cur.to, st.cur.value))]

\* A variant of updateRange that asks the filter about every range, without
\* the test of the range against filterFrom and filterTo.
updateRangeUnbounded(filter, filterFrom, filterTo, st) ==
  IF IsNull(filter) \/ filterKeeps(filter, st.cur.from, st.cur.to, st.cur.value)
  THEN updateKept(filterCalled(filter, filterFrom, filterTo, st),
                  addInner(st.builder, st.cur.from, st.cur.to, st.cur.value))
  ELSE [filterCalled(filter, filterFrom, filterTo, st) EXCEPT !.cur = layerNext(st.cur)]

updateRange(filter, filterFrom, filterTo, st) ==
  IF unfiltered(filter, filterFrom, filterTo, st.cur.from, st.cur.to)
     \/ filterKeeps(filter, st.cur.from, st.cur.to, st.cur.value)
  THEN updateKept(filterCalled(filter, filterFrom, filterTo, st),
                  addInner(st.builder, st.cur.from, st.cur.to, st.cur.value))
  ELSE [filterCalled(filter, filterFrom, filterTo, st) EXCEPT !.cur = layerNext(st.cur)]

\* The branch that takes the whole chunk, when addChunk returns true.
updateChunk(filter, filterFrom, filterTo, st, r) ==
  IF r.added THEN [st EXCEPT !.cur = nextChunk(st.cur), !.builder = r.builder]
  ELSE updateRange(filter, filterFrom, filterTo, st)

updateStep(set, toAdd, filter, filterFrom, filterTo, st) ==
  IF st.i < Len(toAdd)
     /\ (IF st.cur.from - toAdd[st.i + 1].from # 0 THEN st.cur.from - toAdd[st.i + 1].from
         ELSE cursorStartSide(st.cur) - toAdd[st.i + 1].value.startSide) >= 0
  THEN updateAdded(st, toAdd[st.i + 1],
                   addInner(st.builder, toAdd[st.i + 1].from, toAdd[st.i + 1].to,
                            toAdd[st.i + 1].value))
  ELSE IF st.cur.rangeIndex = 1 /\ st.cur.chunkIndex < Len(set.chunk)
          /\ (st.i = Len(toAdd) \/ chunkEnd(set, st.cur.chunkIndex) < toAdd[st.i + 1].from)
          /\ (IsNull(filter) \/ filterFrom > chunkEnd(set, st.cur.chunkIndex)
              \/ filterTo < set.chunkPos[st.cur.chunkIndex + 1])
  THEN updateChunk(filter, filterFrom, filterTo, st,
                   addChunk(st.builder, set.chunkPos[st.cur.chunkIndex + 1],
                            set.chunk[st.cur.chunkIndex + 1]))
  ELSE updateRange(filter, filterFrom, filterTo, st)

\* while (cur.value || i < add.length), as at most n rounds: every round
\* takes a range to add or moves the cursor on, so that the ranges of the
\* layer and those to add bound the rounds.
RECURSIVE updateRounds(_, _, _, _, _, _, _)
updateRounds(set, toAdd, filter, filterFrom, filterTo, st, n) ==
  IF IsErr(st) THEN st
  ELSE IF IsNull(st.cur.value) /\ st.i >= Len(toAdd) THEN st
  ELSE IF n <= 1 THEN updateStep(set, toAdd, filter, filterFrom, filterTo, st)
  ELSE updateRounds(set, toAdd, filter, filterFrom, filterTo,
                    updateRounds(set, toAdd, filter, filterFrom, filterTo, st, n \div 2),
                    n - n \div 2)

updateLoop(set, toAdd, filter, filterFrom, filterTo, st) ==
  updateRounds(set, toAdd, filter, filterFrom, filterTo, st,
               Len(toAdd) + Len(layerRanges(set, 1)))

finishOver(b, next) == IF IsErr(next) THEN next ELSE finishInner(b, next)

RECURSIVE update(_, _, _, _, _, _)
updateFinish(set, filter, filterFrom, filterTo, st) ==
  IF IsErr(st) THEN st
  ELSE finishOver(st.builder,
                  IF isEmpty(set.nextLayer) /\ Len(st.spill) = 0 THEN RangeSetEmpty
                  ELSE update(set.nextLayer, st.spill, FALSE, filter, filterFrom, filterTo))

updateInOrder(set, toAdd, filter, filterFrom, filterTo) ==
  IF isEmpty(set) THEN (IF Len(toAdd) > 0 THEN RangeSetOf(toAdd, FALSE) ELSE set)
  ELSE updateFinish(set, filter, filterFrom, filterTo,
                    updateLoop(set, toAdd, filter, filterFrom, filterTo,
                               [cur |-> layerGoto(LayerCursor(set, -1, 0), 0, -Far),
                                i |-> 0, spill |-> << >>, builder |-> RangeSetBuilder,
                                calls |-> << >>]))

update(set, toAdd, sort, filter, filterFrom, filterTo) ==
  IF Len(toAdd) = 0 /\ IsNull(filter) THEN set
  ELSE updateInOrder(set, IF sort THEN sortRanges(toAdd, Len(toAdd)) ELSE toAdd,
                     filter, filterFrom, filterTo)

\* The ranges that update calls the filter function with, in all layers: the
\* calls of the loop of one layer, then those of the update of the next one.
RECURSIVE filterCalls(_, _, _, _, _)
filterCallsNext(set, filter, filterFrom, filterTo, st) ==
  IF IsErr(st) THEN << >>
  ELSE st.calls \o (IF isEmpty(set.nextLayer) /\ Len(st.spill) = 0 THEN << >>
                    ELSE filterCalls(set.nextLayer, st.spill, filter, filterFrom, filterTo))

filterCalls(set, toAdd, filter, filterFrom, filterTo) ==
  IF (Len(toAdd) = 0 /\ IsNull(filter)) \/ isEmpty(set) THEN << >>
  ELSE filterCallsNext(set, filter, filterFrom, filterTo,
                       updateLoop(set, toAdd, filter, filterFrom, filterTo,
                                  [cur |-> layerGoto(LayerCursor(set, -1, 0), 0, -Far),
                                   i |-> 0, spill |-> << >>, builder |-> RangeSetBuilder,
                                   calls |-> << >>]))

\* The range of index i of a chunk mapped as the loop of Chunk.map does: an
\* error of mapPos, Null for a range that is dropped, or the new range.
\* A variant of mappedEmpty without the last test of Chunk.map, of the sides of
\* a range that stays empty.
mappedEmptyAnySides(val, newFrom, newTo) ==
  IF IsErr(newFrom) \/ IsNull(newFrom) THEN newFrom
  ELSE IF IsErr(newTo) THEN newTo
  ELSE IF newTo.num < newFrom.num THEN Null
  ELSE Range(newFrom.num, newTo.num, val)

mappedEmpty(val, newFrom, newTo) ==
  IF IsErr(newFrom) \/ IsNull(newFrom) THEN newFrom
  ELSE IF IsErr(newTo) THEN newTo
  ELSE IF newTo.num < newFrom.num THEN Null
  ELSE IF (IF newTo.num - newFrom.num # 0 THEN newTo.num - newFrom.num
           ELSE val.endSide - val.startSide) < 0 THEN Null
  ELSE Range(newFrom.num, newTo.num, val)

mappedSpan(val, newFrom, newTo) ==
  IF IsErr(newFrom) THEN newFrom
  ELSE IF IsErr(newTo) THEN newTo
  ELSE IF newFrom.num > newTo.num
          \/ (newFrom.num = newTo.num /\ val.startSide > 0 /\ val.endSide <= 0) THEN Null
  ELSE IF (IF newTo.num - newFrom.num # 0 THEN newTo.num - newFrom.num
           ELSE val.endSide - val.startSide) < 0 THEN Null
  ELSE Range(newFrom.num, newTo.num, val)

mappedRange(val, curFrom, curTo, changes) ==
  IF curFrom = curTo
  THEN mappedEmpty(val, mapPos(changes, curFrom, val.startSide, val.mapMode),
                IF val.startSide # val.endSide
                THEN mapPos(changes, curFrom, val.endSide, Simple)
                ELSE mapPos(changes, curFrom, val.startSide, val.mapMode))
  ELSE mappedSpan(val, mapPos(changes, curFrom, val.startSide, Simple),
                  mapPos(changes, curTo, val.endSide, Simple))

IsKept(r) == ~IsNull(r)

\* The chunk of the kept ranges, relative to the first of them.
chunkOfMapped(kept) ==
  IF Len(kept) = 0 THEN [mapped |-> Null, pos |-> -1]
  ELSE [mapped |->
          Chunk([i \in 1..Len(kept) |-> kept[i].from - kept[1].from],
                [i \in 1..Len(kept) |-> kept[i].to - kept[1].from],
                [i \in 1..Len(kept) |-> kept[i].value],
                CHOOSE m \in { -1 } \cup { kept[i].to - kept[i].from : i \in 1..Len(kept) } :
                  /\ m = -1 \/ \E i \in 1..Len(kept) :
                                 kept[i].value.point /\ m = kept[i].to - kept[i].from
                  /\ \A i \in 1..Len(kept) :
                       kept[i].value.point => m >= kept[i].to - kept[i].from),
        pos |-> kept[1].from]

chunkMapped(all) ==
  IF \E i \in 1..Len(all) : IsErr(all[i])
  THEN all[CHOOSE i \in 1..Len(all) : IsErr(all[i])]
  ELSE chunkOfMapped(SelectSeq(all, IsKept))

\* Chunk.map
chunkMap(chunk, offset, changes) ==
  chunkMapped([i \in 1..Len(chunk.value) |->
                 mappedRange(chunk.value[i], chunk.from[i] + offset, chunk.to[i] + offset,
                             changes)])

mapUntouched(acc, chunk, pos) ==
  IF IsErr(pos) THEN pos
  ELSE [chunks |-> Append(acc.chunks, chunk), chunkPos |-> Append(acc.chunkPos, pos.num),
        maxPoint |-> Max(acc.maxPoint, chunk.maxPoint)]

mapTouched(acc, r) ==
  IF IsErr(r) THEN r
  ELSE IF IsNull(r.mapped) THEN acc
  ELSE [chunks |-> Append(acc.chunks, r.mapped), chunkPos |-> Append(acc.chunkPos, r.pos),
        maxPoint |-> Max(acc.maxPoint, r.mapped.maxPoint)]

\* A variant of mapChunk that leaves an untouched chunk at its old position.
mapChunkUnmoved(acc, chunk, start, changes, touch) ==
  IF touch = "false" THEN mapUntouched(acc, chunk, Num(start))
  ELSE IF touch = "true" THEN mapTouched(acc, chunkMap(chunk, start, changes))
  ELSE acc

mapChunk(acc, chunk, start, changes, touch) ==
  IF touch = "false" THEN mapUntouched(acc, chunk, mapPos(changes, start, -1, Simple))
  ELSE IF touch = "true" THEN mapTouched(acc, chunkMap(chunk, start, changes))
  ELSE acc

\* The loop of RangeSet.map over the chunks of one layer.
RECURSIVE mapChunks(_, _, _, _)
mapChunks(set, changes, i, acc) ==
  IF IsErr(acc) \/ i >= Len(set.chunk) THEN acc
  ELSE mapChunks(set, changes, i + 1,
                 mapChunk(acc, set.chunk[i + 1], set.chunkPos[i + 1], changes,
                          touchesRange(changes, set.chunkPos[i + 1],
                                       set.chunkPos[i + 1] + chunkLength(set.chunk[i + 1]))))

mapResult(acc, next) ==
  IF IsErr(acc) THEN acc
  ELSE IF IsErr(next) THEN next
  ELSE IF Len(acc.chunks) = 0 THEN next
  ELSE RangeSetCreate(acc.chunkPos, acc.chunks, next, acc.maxPoint)

RECURSIVE map(_, _)
map(set, changes) ==
  IF CsEmpty(changes) \/ isEmpty(set) THEN set
  ELSE mapResult(mapChunks(set, changes, 0,
                           [chunks |-> << >>, chunkPos |-> << >>, maxPoint |-> -1]),
                 map(set.nextLayer, changes))

\* The inner loop of RangeSet.join: the layers of a set are put over result
\* one after the other.
RECURSIVE joinLayers(_, _)
joinLayers(layer, result) ==
  IF isEmpty(layer) THEN result
  ELSE joinLayers(layer.nextLayer,
                  RangeSetCreate(layer.chunkPos, layer.chunk, result,
                                 Max(layer.maxPoint, result.maxPoint)))

RECURSIVE joinFrom(_, _, _)
joinFrom(sets, i, result) ==
  IF i < 0 THEN result ELSE joinFrom(sets, i - 1, joinLayers(sets[i + 1], result))

join(sets) ==
  IF Len(sets) = 0 THEN RangeSetEmpty
  ELSE joinFrom(sets, Len(sets) - 2, sets[Len(sets)])

\* RangeSet.spans: the calls of iterator.span and iterator.point, in order,
\* and the open count that is returned.
spanCalled(sc, from, to, pos, openRanges) ==
  IF ~IsNull(sc.point)
  THEN << [kind |-> "point", from |-> pos, to |-> Min(sc.to, to), value |-> sc.point,
           active |-> activeForPoint(sc, sc.to),
           openStart |-> IF sc.pointFrom < from THEN Len(activeForPoint(sc, sc.to)) + 1
                         ELSE IF sc.point.startSide < 0 THEN Len(activeForPoint(sc, sc.to))
                         ELSE Min(Len(activeForPoint(sc, sc.to)), openRanges),
           index |-> sc.pointRank] >>
  ELSE IF Min(sc.to, to) > pos
  THEN << [kind |-> "span", from |-> pos, to |-> Min(sc.to, to), active |-> sc.active,
           openStart |-> openRanges] >>
  ELSE << >>

spanOpen(sc, to, pos, openRanges) ==
  IF ~IsNull(sc.point)
  THEN Min(openEnd(sc, Min(sc.to, to)), Len(activeForPoint(sc, sc.to)))
  ELSE IF Min(sc.to, to) > pos THEN openEnd(sc, Min(sc.to, to))
  ELSE openRanges

RECURSIVE spansLoop(_, _, _, _, _, _)
spansLoop(sc, from, to, pos, openRanges, calls) ==
  IF sc.to > to
  THEN [calls |-> calls \o spanCalled(sc, from, to, pos, openRanges),
        open |-> spanOpen(sc, to, pos, openRanges) + (IF ~IsNull(sc.point) THEN 1 ELSE 0)]
  ELSE spansLoop(spanNext(sc), from, to, sc.to, spanOpen(sc, to, pos, openRanges),
                 calls \o spanCalled(sc, from, to, pos, openRanges))

spansFrom(sc, from, to) == spansLoop(sc, from, to, from, sc.openStart, << >>)

spans(sets, from, to, minPointSize) ==
  spansFrom(spanGoto(SpanCursor(sets, {}, minPointSize), from, -Far), from, to)

\* a.length == b.length and a[i] == b[i] || a[i].eq(b[i]) for every i; a
\* value is eq to the values of the same content.
sameValues(a, b) == a = b

\* The entries of the map inA of findSharedChunks: the chunks without a
\* point longer than 0 of the first layer of every set, with their positions.
RECURSIVE chunksIn(_, _)
chunksIn(sets, k) ==
  IF k > Len(sets) \/ isEmpty(sets[k]) THEN (IF k > Len(sets) THEN << >> ELSE chunksIn(sets, k + 1))
  ELSE SelectSeq([i \in 1..Len(sets[k].chunk) |->
                    [chunk |-> sets[k].chunk[i], pos |-> sets[k].chunkPos[i]]],
                 LAMBDA e : e.chunk.maxPoint <= 0)
         \o chunksIn(sets, k + 1)

\* inA.get(chunk): the position that was set last, or null.
known(inA, chunk) ==
  IF \E i \in 1..Len(inA) : inA[i].chunk = chunk
  THEN Num(inA[CHOOSE i \in 1..Len(inA) :
                 /\ inA[i].chunk = chunk
                 /\ \A j \in i + 1..Len(inA) : inA[j].chunk # chunk].pos)
  ELSE Null

isShared(pos, chunk, chunkPos, textDiff) ==
  /\ ~IsNull(pos)
  /\ (IF IsNull(textDiff) THEN pos.num ELSE mapPos(textDiff, pos.num, -1, Simple).num) = chunkPos
  /\ (IsNull(textDiff) \/ touchesRange(textDiff, pos.num, pos.num + chunkLength(chunk)) = "false")

\* A variant of findSharedChunks that takes a chunk of b for shared when it is
\* in a, wherever it is.
findSharedChunksAnywhere(a, b, textDiff) ==
  { e.chunk : e \in { e \in Elements(chunksIn(b, 1)) : ~IsNull(known(chunksIn(a, 1), e.chunk)) } }

\* findSharedChunks(a, b, textDiff), where textDiff is Null when not given.
findSharedChunks(a, b, textDiff) ==
  { e.chunk : e \in { e \in Elements(chunksIn(b, 1)) :
                        isShared(known(chunksIn(a, 1), e.chunk), e.chunk, e.pos, textDiff) } }

RECURSIVE eqLoop(_, _, _)
eqLoop(sideA, sideB, to) ==
  IF sideA.to # sideB.to
     \/ ~sameValues(sideA.active, sideB.active)
     \/ (~IsNull(sideA.point) /\ (IsNull(sideB.point) \/ sideA.point # sideB.point))
  THEN FALSE
  ELSE IF sideA.to > to THEN TRUE
  ELSE eqLoop(spanNext(sideA), spanNext(sideB), to)

eqSides(a, b, from, to, sharedChunks) ==
  eqLoop(spanGoto(SpanCursor(a, sharedChunks, 0), from, -Far),
         spanGoto(SpanCursor(b, sharedChunks, 0), from, -Far), to)

eqFiltered(a, b, from, to, same) ==
  IF Len(a) # Len(b) THEN FALSE
  ELSE IF Len(a) = 0 THEN TRUE
  ELSE eqSides(a, b, from, to, IF same THEN findSharedChunks(a, b, Null) ELSE {})

\* RangeSet.eq(oldSets, newSets, from, to).  same tells whether the sets and
\* chunks of the same content are the same objects, or none are.
eq(oldSets, newSets, from, to, same) ==
  eqFiltered(SelectSeq(oldSets, LAMBDA set : ~isEmpty(set)
                                              /\ ~(same /\ set \in Elements(newSets))),
             SelectSeq(newSets, LAMBDA set : ~isEmpty(set)
                                              /\ ~(same /\ set \in Elements(oldSets))),
             from, to, same)

\* ChangeDesc.iterGaps: the calls f(posA, posB, length), in order.
RECURSIVE iterGapsFrom(_, _, _, _)
iterGapsFrom(sections, i, posA, posB) ==
  IF i >= Len(sections) THEN << >>
  ELSE IF sections[i + 2] < 0
    THEN << [posA |-> posA, posB |-> posB, length |-> sections[i + 1]] >>
           \o iterGapsFrom(sections, i + 2, posA + sections[i + 1], posB + sections[i + 1])
  ELSE iterGapsFrom(sections, i + 2, posA + sections[i + 1], posB + sections[i + 2])

iterGaps(desc) == iterGapsFrom(desc.sections, 0, 0, 0)

\* The end of the step of the function compare: the nearer of the ends of
\* the two sides, in positions of side b.
sidesDiff(st, dPos) ==
  IF (st.a.to + dPos) - st.b.to # 0 THEN (st.a.to + dPos) - st.b.to
  ELSE st.a.endSide - st.b.endSide

sidesEnd(st, dPos) == IF sidesDiff(st, dPos) < 0 THEN st.a.to + dPos ELSE st.b.to

samePoint(a, b) ==
  /\ ~IsNull(a.point) /\ ~IsNull(b.point)
  /\ a.point = b.point
  /\ sameValues(activeForPoint(a, a.to), activeForPoint(b, b.to))

\* The calls of the comparator in one round of the loop of compare.
compared(st, pos, clipEnd) ==
  IF ~IsNull(st.a.point) \/ ~IsNull(st.b.point)
  THEN (IF samePoint(st.a, st.b) THEN << >>
        ELSE << [kind |-> "comparePoint", from |-> pos, to |-> clipEnd,
                 pointA |-> st.a.point, pointB |-> st.b.point] >>)
  ELSE IF clipEnd > pos /\ ~sameValues(st.a.active, st.b.active)
  THEN << [kind |-> "compareRange", from |-> pos, to |-> clipEnd,
           activeA |-> st.a.active, activeB |-> st.b.active] >>
  ELSE << >>

boundChanged(st, dPos) ==
  IF (st.a.to + dPos) - st.b.to # 0
  THEN << [kind |-> "boundChange", from |-> sidesEnd(st, dPos), to |-> sidesEnd(st, dPos)] >>
  ELSE << >>

\* The loop of the function compare: st holds the two cursors and the calls.
RECURSIVE compareLoop(_, _, _, _)
compareLoop(st, dPos, endB, pos) ==
  IF sidesEnd(st, dPos) > endB
  THEN [st EXCEPT !.calls = st.calls \o compared(st, pos, Min(sidesEnd(st, dPos), endB))]
  ELSE compareLoop([a |-> IF sidesDiff(st, dPos) <= 0 THEN spanNext(st.a) ELSE st.a,
                    b |-> IF sidesDiff(st, dPos) >= 0 THEN spanNext(st.b) ELSE st.b,
                    calls |-> st.calls \o compared(st, pos, Min(sidesEnd(st, dPos), endB))
                                \o boundChanged(st, dPos)],
                   dPos, endB, sidesEnd(st, dPos))

\* function compare(a, startA, b, startB, length, comparator)
compareSides(st, startA, startB, length) ==
  compareLoop([a |-> spanGoto(st.a, startA, -Far), b |-> spanGoto(st.b, startB, -Far),
               calls |-> st.calls],
              startB - startA, startB + length, startB)

RECURSIVE compareGaps(_, _, _)
compareGaps(st, gaps, k) ==
  IF k > Len(gaps) THEN st
  ELSE compareGaps(compareSides(st, gaps[k].posA, gaps[k].posB, gaps[k].length), gaps, k + 1)

compareAfterGaps(st, textDiff) ==
  IF CsEmpty(textDiff) /\ CsLength(textDiff) = 0 THEN compareSides(st, 0, 0, 0) ELSE st

compareFiltered(a, b, textDiff, minPointSize, sharedChunks) ==
  compareAfterGaps(compareGaps([a |-> SpanCursor(a, sharedChunks, minPointSize),
                                b |-> SpanCursor(b, sharedChunks, minPointSize),
                                calls |-> << >>],
                               iterGaps(textDiff), 1),
                   textDiff).calls

compareShared(a, b, textDiff, minPointSize, same) ==
  compareFiltered(a, b, textDiff, minPointSize,
                  IF same THEN findSharedChunks(a, b, textDiff) ELSE {})

\* RangeSet.compare(oldSets, newSets, textDiff, comparator, minPointSize):
\* the calls of the comparator.  same is as for eq.
RangeSetCompare(oldSets, newSets, textDiff, minPointSize, same) ==
  compareShared(SelectSeq(oldSets, LAMBDA set : set.maxPoint > 0
                                   \/ (~isEmpty(set) /\ set.maxPoint >= minPointSize)),
            SelectSeq(newSets, LAMBDA set : set.maxPoint > 0
                                   \/ (~isEmpty(set) /\ set.maxPoint >= minPointSize)),
            textDiff, minPointSize, same)

\* ---------------------------------------------------------------------
\* SpecBuilder: a RangeSetBuilder that holds 0, ChunkSize - 1 or ChunkSize
\* empty ranges at 0 is given up to MaxAdds more ranges, and finished.
\* setC is the builder, arg.ranges the ranges add accepted, arg.range the
\* range of the last call and arg.prev the range accepted before it,
\* arg.layer the layer the last accepted range was stored in and
\* arg.prevLayer that of the range accepted before the last call, out the
\* error of the last call, setA the finished set.
\* ---------------------------------------------------------------------

RangePosMax == 2
MaxAdds == 3
Sides == { -1, 0, 1 }

\* Values that cover both ends, one end or neither, and a point.
RangeValues ==
  { RangeValue(s, s, FALSE) : s \in Sides }
    \cup { RangeValue(-1, 1, FALSE), RangeValue(1, -1, FALSE), RangeValue(0, 0, TRUE) }

Ranges(most) ==
  { Range(from, to, v) : from \in 0..most, to \in 0..most, v \in RangeValues }

BuilderRanges == { r \in Ranges(RangePosMax) : r.from <= r.to }

Prefilled(n) == [i \in 1..n |-> Range(0, 0, RangeValue(0, 0, TRUE))]

layerSize(b) == Len(b.from) + Len(layerRanges([chunk |-> b.chunks, chunkPos |-> b.chunkPos], 1))

\* The layer of builder after whose size differs from that layer of before.
RECURSIVE storedLayer(_, _)
storedLayer(before, after) ==
  IF layerSize(before) # layerSize(after) THEN 1
  ELSE 1 + storedLayer(IF IsNull(before.nextLayer) THEN RangeSetBuilder ELSE before.nextLayer,
                       after.nextLayer)

lastRange(ranges) == IF Len(ranges) = 0 THEN Null ELSE ranges[Len(ranges)]

InitBuilder ==
  /\ \E n \in { 0, ChunkSize - 1, ChunkSize } :
       /\ setC = addAll(RangeSetBuilder, Prefilled(n), 0, n)
       /\ arg = [ranges |-> Prefilled(n), range |-> Null, prev |-> Null,
                 layer |-> IF n = 0 THEN 0 ELSE 1, prevLayer |-> 0, adds |-> 0]
  /\ pc = "prepared"
  /\ out = Unset
  /\ setA = Unset
  /\ doc = Unset
  /\ setB = Unset

Added(r, b) ==
  /\ arg' = [ranges |-> IF IsErr(b) THEN arg.ranges ELSE Append(arg.ranges, r),
             range |-> r,
             prev |-> lastRange(arg.ranges),
             layer |-> IF IsErr(b) THEN arg.layer ELSE storedLayer(setC, b),
             prevLayer |-> arg.layer,
             adds |-> arg.adds + 1]
  /\ setC' = IF IsErr(b) THEN setC ELSE b
  /\ out' = IF IsErr(b) THEN b ELSE Unset
  /\ pc' = IF IsErr(b) THEN "threw" ELSE "added"

AddRange ==
  /\ pc \in { "prepared", "added", "threw" }
  /\ arg.adds < MaxAdds
  /\ \E r \in BuilderRanges : Added(r, add(setC, r.from, r.to, r.value))
  /\ UNCHANGED << doc, setA, setB >>

Finish ==
  /\ pc \in { "prepared", "added", "threw" }
  /\ setA' = finishBuilder(setC)
  /\ pc' = "finished"
  /\ UNCHANGED << doc, setB, setC, arg, out >>

NextBuilder == AddRange \/ Finish

SpecBuilder == InitBuilder /\ [][NextBuilder]_vars

Called == pc \in { "added", "threw" } /\ ~IsNull(arg.prev)

\* The range starts before the end of p, or at it with a startSide below
\* the endSide of p.
StartsBefore(r, p) ==
  r.from < p.to \/ (r.from = p.to /\ r.value.startSide < p.value.endSide)

AcceptedOnce == pc = "finished" => SameRanges(setRanges(setA), arg.ranges)

MaxRanges == 2
MaxSetSteps == 1
SetDocLen == 2
SetIns == 1

SetValues ==
  { RangeValue(1, 1, FALSE), RangeValue(-1, -1, FALSE), RangeValue(1, -1, FALSE),
    RangeValue(0, 0, TRUE) }

SetRanges ==
  { Range(from, to, v) : from \in 0..SetDocLen, to \in 0..SetDocLen, v \in SetValues }

RangeLists(ranges, n) ==
  UNION { [1..k -> { r \in ranges : r.from <= r.to }] : k \in 0..n }

\* ChunkSize + 2 ranges in order: the last but one starts a second chunk and
\* the last one spills to a second layer.
ManyRanges ==
  [i \in 1..ChunkSize + 2 |->
     Range(0, IF i <= ChunkSize THEN 0 ELSE 1, RangeValue(0, 0, TRUE))]

\* The lists of ranges given to update: one range, or two points in any order.
UpdateLists ==
  RangeLists(SetRanges, 1)
    \cup RangeLists({ r \in SetRanges : r.value.point }, MaxRanges)

SetOps == { "built", "updated", "mapped", "joined" }

Filters == { NoFilter, [keep |-> "nothing"], [keep |-> "points"], [keep |-> "nonempty"] }

InitRangeSet ==
  /\ \E l \in RangeLists(SetRanges, MaxRanges) \cup { ManyRanges }, sort \in BOOLEAN :
       /\ sort \/ IsSorted(l)
       /\ setA = RangeSetOf(l, sort)
  /\ arg = [steps |-> 0, mapped |-> FALSE, joined |-> FALSE]
  /\ pc = "built"
  /\ setB = Unset
  /\ setC = Unset
  /\ out = << >>
  /\ doc = Unset

Stepped(set, op) ==
  /\ ~IsErr(set)
  /\ setA' = set
  /\ pc' = op
  /\ arg' = [steps |-> arg.steps + 1, mapped |-> arg.mapped \/ op = "mapped",
             joined |-> arg.joined \/ op = "joined"]
  /\ UNCHANGED << doc, setB, setC, out >>

UpdateSet ==
  /\ pc \in SetOps /\ arg.steps < MaxSetSteps
  /\ \E l \in UpdateLists, f \in Filters,
        ends \in { << 0, setLength(setA) >>, << 1, 1 >> } :
       Stepped(update(setA, l, TRUE, f, ends[1], ends[2]), "updated")

MapSet ==
  /\ pc \in SetOps /\ arg.steps < MaxSetSteps
  /\ \E changes \in Descs(SetDocLen, SetIns, 1) : Stepped(map(setA, changes), "mapped")

JoinSet ==
  /\ pc \in SetOps /\ arg.steps < MaxSetSteps
  /\ \E l \in RangeLists(SetRanges, 1), first \in BOOLEAN :
       Stepped(join(IF first THEN << RangeSetOf(l, FALSE), setA >>
                    ELSE << setA, RangeSetOf(l, FALSE) >>), "joined")

Iter ==
  /\ pc \in SetOps
  /\ setB' = iter(setA, 0)
  /\ pc' = "iter"
  /\ UNCHANGED << doc, setA, setC, arg, out >>

CursorNext ==
  /\ pc = "iter"
  /\ ~IsNull(setB.value)
  /\ out' = Append(out, Range(setB.from, setB.to, setB.value))
  /\ setB' = cursorNext(setB)
  /\ UNCHANGED << doc, setA, setC, arg, pc >>

NextRangeSet == UpdateSet \/ MapSet \/ JoinSet \/ Iter \/ CursorNext

SpecRangeSet == InitRangeSet /\ [][NextRangeSet]_vars

\* The ranges read so far and the one the cursor is at.
Yielded ==
  IF IsNull(setB.value) THEN out ELSE Append(out, Range(setB.from, setB.to, setB.value))

IterYieldsAll ==
  pc = "iter" =>
    /\ IsNull(setB.value) => SameRanges(out, setRanges(setA))
    /\ ~IsNull(setB.value) => Len(out) < Len(setRanges(setA))

MaxBefore == 2

AddBefore ==
  /\ pc \in { "prepared", "added", "threw" }
  /\ arg.adds < MaxBefore
  /\ \E r \in BuilderRanges : Added(r, add(setC, r.from, r.to, r.value))
  /\ UNCHANGED << doc, setA, setB >>

FinishUsed ==
  /\ pc \in { "prepared", "added", "threw" }
  /\ setA' = finishBuilder(setC)
  /\ setC' = finishedBuilder(setC)
  /\ pc' = "finished"
  /\ UNCHANGED << doc, setB, arg, out >>

AddedAgain(r, b) ==
  /\ arg' = [arg EXCEPT !.range = r]
  /\ setC' = IF IsErr(b) THEN setC ELSE b
  /\ out' = IF IsErr(b) THEN b ELSE Unset
  /\ pc' = "again"

AddAgain ==
  /\ pc = "finished"
  /\ \E r \in BuilderRanges : AddedAgain(r, add(setC, r.from, r.to, r.value))
  /\ UNCHANGED << doc, setA, setB >>

NextFinished == AddBefore \/ FinishUsed \/ AddAgain

SpecFinished == InitBuilder /\ [][NextFinished]_vars

\* C21: after finish, every further call of add on the builder fails with an
\* error, whatever was added before finish.
AddAfterFinishFails == pc = "again" => IsErr(out)

\* ---------------------------------------------------------------------
\* SpecUpdate: a set made by RangeSet.of, and mapped or not, is updated
\* once.  setA is the set before, arg the argument of update, out.set what
\* update returned or threw and out.calls the ranges that the filter was
\* called with.
\* ---------------------------------------------------------------------

UpdateAdds ==
  { l \in RangeLists(SetRanges, 1) : \A i \in 1..Len(l) : l[i].value.startSide # l[i].value.endSide
                                                          \/ l[i].value.point }

UpdatePairs ==
  { << r, s >> : r, s \in { t \in SetRanges : t.value.point /\ t.from = t.to } }

UpdateSpecs ==
  { [add |-> l, sort |-> FALSE, filter |-> f, filterFrom |-> ends[1], filterTo |-> ends[2]] :
      l \in UpdateAdds, f \in Filters \ { NoFilter },
      ends \in { << 0, SetDocLen >>, << 1, 1 >> } }
    \cup { [add |-> l, sort |-> TRUE, filter |-> NoFilter, filterFrom |-> 0,
            filterTo |-> SetDocLen] : l \in UpdateAdds \cup UpdatePairs }

UpdateWith ==
  /\ pc \in SetOps
  /\ \E spec \in UpdateSpecs :
       /\ arg' = spec
       /\ out' = [set |-> update(setA, spec.add, spec.sort, spec.filter,
                                 spec.filterFrom, spec.filterTo),
                  calls |-> filterCalls(setA, spec.add, spec.filter,
                                        spec.filterFrom, spec.filterTo),
                  mapped |-> arg.mapped]
  /\ pc' = "checked"
  /\ UNCHANGED << doc, setA, setB, setC >>

NextUpdate == MapSet \/ UpdateWith

SpecUpdate == InitRangeSet /\ [][NextUpdate]_vars

Outside(r) == r.to < arg.filterFrom \/ r.from > arg.filterTo

UpdateKeeps(r) ==
  IsNull(arg.filter) \/ Outside(r) \/ filterKeeps(arg.filter, r.from, r.to, r.value)

UpdateResult ==
  /\ ~IsErr(out.set)
  /\ SameRanges(setRanges(out.set), SelectSeq(setRanges(setA), UpdateKeeps) \o arg.add)
  /\ \A i \in 1..Len(out.calls) : ~Outside(out.calls[i])
  /\ Len(arg.add) = 0 /\ IsNull(arg.filter) => out.set = setA

MapWith ==
  /\ pc \in SetOps /\ arg.steps < MaxSetSteps
  /\ \E changes \in Descs(SetDocLen, SetIns, 1) :
       /\ ~IsErr(map(setA, changes))
       /\ setA' = map(setA, changes)
       /\ arg' = [steps |-> arg.steps + 1, mapped |-> TRUE, changes |-> changes]
  /\ setB' = setA
  /\ pc' = "mapped"
  /\ UNCHANGED << doc, setC, out >>

NextMap == MapWith

SpecMap == InitRangeSet /\ [][NextMap]_vars

\* The layers of a set, outermost first.
RECURSIVE layersOf(_)
layersOf(set) == IF isEmpty(set) THEN << >> ELSE << set >> \o layersOf(set.nextLayer)

touchOf(layer, i) ==
  touchesRange(arg.changes, layer.chunkPos[i], layer.chunkPos[i] + chunkLength(layer.chunk[i]))

ShiftedRange(r) ==
  Range(mapPos(arg.changes, r.from, -1, Simple).num, mapPos(arg.changes, r.to, -1, Simple).num,
        r.value)

shiftedRanges(ranges) == [k \in 1..Len(ranges) |-> ShiftedRange(ranges[k])]

\* What the chunk i of a layer gives to the mapped set.
mappedOfChunk(layer, i) ==
  IF touchOf(layer, i) = "false"
  THEN shiftedRanges(chunkRanges(layer.chunkPos[i], layer.chunk[i]))
  ELSE IF touchOf(layer, i) = "true"
  THEN SelectSeq([k \in 1..Len(layer.chunk[i].value) |->
                    mappedRange(layer.chunk[i].value[k],
                                layer.chunk[i].from[k] + layer.chunkPos[i],
                                layer.chunk[i].to[k] + layer.chunkPos[i], arg.changes)], IsKept)
  ELSE << >>

RECURSIVE mappedOfLayer(_, _)
mappedOfLayer(layer, i) ==
  IF i > Len(layer.chunk) THEN << >>
  ELSE mappedOfChunk(layer, i) \o mappedOfLayer(layer, i + 1)

RECURSIVE mappedOfLayers(_, _)
mappedOfLayers(layers, k) ==
  IF k > Len(layers) THEN << >>
  ELSE mappedOfLayer(layers[k], 1) \o mappedOfLayers(layers, k + 1)

\* The chunk i of a layer of the set before is a chunk of the mapped set, at
\* the mapped position, and its ranges are there shifted.
ChunkReused(layer, i) ==
  \E m \in Elements(layersOf(setA)) : \E j \in 1..Len(m.chunk) :
    /\ m.chunk[j] = layer.chunk[i]
    /\ m.chunkPos[j] = mapPos(arg.changes, layer.chunkPos[i], -1, Simple).num
    /\ chunkRanges(m.chunkPos[j], m.chunk[j])
         = shiftedRanges(chunkRanges(layer.chunkPos[i], layer.chunk[i]))

NewFrom(r) == mapPos(arg.changes, r.from, r.value.startSide, Simple).num

NewTo(r) ==
  IF r.from = r.to /\ r.value.startSide = r.value.endSide THEN NewFrom(r)
  ELSE mapPos(arg.changes, r.to, r.value.endSide, Simple).num

Deleted(r) == IsNull(mapPos(arg.changes, r.from, r.value.startSide, r.value.mapMode))

KeptAsStated(r) ==
  IF r.from = r.to THEN ~Deleted(r)
  ELSE ~(NewFrom(r) > NewTo(r)
         \/ (NewFrom(r) = NewTo(r) /\ r.value.startSide > 0 /\ r.value.endSide <= 0))

KeptInOrder(r) ==
  /\ r.from = r.to => ~Deleted(r)
  /\ NewFrom(r) <= NewTo(r)
  /\ NewFrom(r) = NewTo(r) => r.value.startSide <= r.value.endSide

newRanges(ranges) == [k \in 1..Len(ranges) |-> Range(NewFrom(ranges[k]), NewTo(ranges[k]),
                                                      ranges[k].value)]

\* The ranges of the chunk that Chunk.map makes of chunk i of a layer.
rebuiltOf(r) == IF IsNull(r.mapped) THEN << >> ELSE chunkRanges(r.pos, r.mapped)

rebuilt(layer, i) == rebuiltOf(chunkMap(layer.chunk[i], layer.chunkPos[i], arg.changes))

Touched == { tc \in { << layer, i >> : layer \in Elements(layersOf(setB)), i \in 1..2 } :
               tc[2] <= Len(tc[1].chunk) /\ touchOf(tc[1], tc[2]) = "true" }

AllOrdered == \A i \in 1..Len(setRanges(setA)) : setRanges(setA)[i].from <= setRanges(setA)[i].to

\* C24 as stated: of a touched chunk, map keeps an empty range iff mapPos of
\* its position by startSide and mapMode is not null, and drops a non-empty
\* one iff newFrom > newTo, or newFrom = newTo with startSide > 0 and
\* endSide <= 0; the kept ranges are at (newFrom, newTo) and every range of
\* the mapped set has from <= to.
RebuiltKeepsAsStated ==
  pc = "mapped" =>
    /\ \A c \in Touched :
         rebuilt(c[1], c[2])
           = newRanges(SelectSeq(chunkRanges(c[1].chunkPos[c[2]], c[1].chunk[c[2]]), KeptAsStated))
    /\ AllOrdered

\* C24, amended: of a touched chunk, map keeps a range iff its position is
\* not deleted when it is empty, newFrom <= newTo, and startSide <= endSide
\* when newFrom = newTo.
RebuiltKeepsInOrder ==
  pc = "mapped" =>
    /\ \A c \in Touched :
         rebuilt(c[1], c[2])
           = newRanges(SelectSeq(chunkRanges(c[1].chunkPos[c[2]], c[1].chunk[c[2]]), KeptInOrder))
    /\ AllOrdered

\* A touched chunk of two ranges of which one is dropped and the other, not
\* empty, is kept at new positions.
RebuiltKeepsInOrderWitness ==
  /\ pc = "mapped"
  /\ \E c \in Touched :
       /\ Len(c[1].chunk[c[2]].value) = 2
       /\ Len(rebuilt(c[1], c[2])) = 1
       /\ rebuilt(c[1], c[2])[1].from < rebuilt(c[1], c[2])[1].to
       /\ rebuilt(c[1], c[2])[1] \notin Elements(setRanges(setB))

\* ---------------------------------------------------------------------
\* SpecLayers: a set made by RangeSet.of, from any list of ranges that the
\* builder accepts, and then updated, mapped or joined with another set.
\* out.inOrder tells whether the list was in the order of cmpRange, or sorted
\* by RangeSet.of.
\* ---------------------------------------------------------------------

InitLayers ==
  /\ \E l \in RangeLists(SetRanges, MaxRanges) \cup { ManyRanges }, sort \in BOOLEAN :
       /\ ~IsErr(RangeSetOf(l, sort))
       /\ setA = RangeSetOf(l, sort)
       /\ out = [inOrder |-> sort \/ IsSorted(l)]
  /\ arg = [steps |-> 0, mapped |-> FALSE, joined |-> FALSE]
  /\ pc = "built"
  /\ setB = Unset
  /\ setC = Unset
  /\ doc = Unset

UpdateLayers ==
  /\ pc \in SetOps /\ arg.steps < MaxSetSteps
  /\ \E spec \in UpdateSpecs :
       Stepped(update(setA, spec.add, spec.sort, spec.filter, spec.filterFrom, spec.filterTo),
               "updated")

NextLayers == UpdateLayers \/ MapSet \/ JoinSet

SpecLayers == InitLayers /\ [][NextLayers]_vars

\* The ranges of a layer are in the order of cmpRange, across chunks.
LayerSorted(layer) == IsSorted(layerRanges(layer, 1))

LayerSortedByFrom(layer) ==
  \A i \in 1..Len(layerRanges(layer, 1)) - 1 :
    layerRanges(layer, 1)[i].from <= layerRanges(layer, 1)[i + 1].from

\* The chunks of a layer are at non-decreasing positions, do not overlap and
\* hold between 1 and ChunkSize ranges each.
ChunksInOrder(layer) ==
  /\ Len(layer.chunk) = Len(layer.chunkPos)
  /\ Len(layer.chunk) >= 1
  /\ \A i \in 1..Len(layer.chunk) :
       /\ Len(layer.chunk[i].value) \in 1..ChunkSize
       /\ Len(layer.chunk[i].from) = Len(layer.chunk[i].value)
       /\ Len(layer.chunk[i].to) = Len(layer.chunk[i].value)
  /\ \A i \in 1..Len(layer.chunk) - 1 :
       /\ layer.chunkPos[i] <= layer.chunkPos[i + 1]
       /\ chunkEnd(layer, i - 1) <= layer.chunkPos[i + 1]

largestPoint(ranges) ==
  CHOOSE m \in { -1 } \cup { ranges[i].to - ranges[i].from : i \in 1..Len(ranges) } :
    /\ m = -1 \/ \E i \in 1..Len(ranges) : ranges[i].value.point /\ m = ranges[i].to - ranges[i].from
    /\ \A i \in 1..Len(ranges) : ranges[i].value.point => m >= ranges[i].to - ranges[i].from

ChunksMaxPoint(layer) ==
  \A i \in 1..Len(layer.chunk) :
    layer.chunk[i].maxPoint = largestPoint(chunkRanges(layer.chunkPos[i], layer.chunk[i]))

SpanGroups ==
  { << RangeSetOf(l, TRUE) >> : l \in RangeLists(SetRanges, MaxRanges) }
    \cup { << RangeSetOf(l, TRUE), RangeSetOf(m, TRUE) >> : l, m \in RangeLists(SetRanges, 1) }

InitSpans ==
  /\ setA \in SpanGroups
  /\ arg = [mapped |-> FALSE]
  /\ pc = "built"
  /\ setB = Unset
  /\ setC = Unset
  /\ out = << >>
  /\ doc = Unset

MapGroup ==
  /\ pc = "built"
  /\ \E changes \in Descs(SetDocLen, SetIns, 1) :
       /\ ~CsEmpty(changes)
       /\ \A k \in 1..Len(setA) : ~IsErr(map(setA[k], changes))
       /\ setA' = [k \in 1..Len(setA) |-> map(setA[k], changes)]
  /\ arg' = [mapped |-> TRUE]
  /\ pc' = "mapped"
  /\ UNCHANGED << doc, setB, setC, out >>

Spans ==
  /\ pc \in { "built", "mapped" }
  /\ \E from \in 0..SetDocLen, to \in 0..SetDocLen, minPointSize \in { -1, 1 } :
       /\ from <= to
       /\ arg' = [mapped |-> arg.mapped, from |-> from, to |-> to, minPointSize |-> minPointSize]
       /\ out' = spans(setA, from, to, minPointSize)
  /\ pc' = "spans"
  /\ UNCHANGED << doc, setA, setB, setC >>

NextSpans == MapGroup \/ Spans

SpecSpans == InitSpans /\ [][NextSpans]_vars

NonEmptyCalls == SelectSeq(out.calls, LAMBDA c : c.from < c.to)

SpansCovered ==
  /\ \A i \in 1..Len(out.calls) :
       /\ arg.from <= out.calls[i].from
       /\ out.calls[i].from <= out.calls[i].to
       /\ out.calls[i].to <= arg.to
       /\ out.calls[i].from = IF i = 1 THEN arg.from ELSE out.calls[i - 1].to
  /\ arg.from < arg.to =>
       /\ Len(NonEmptyCalls) > 0
       /\ NonEmptyCalls[1].from = arg.from
       /\ NonEmptyCalls[Len(NonEmptyCalls)].to = arg.to
       /\ \A i \in 1..Len(NonEmptyCalls) - 1 : NonEmptyCalls[i].to = NonEmptyCalls[i + 1].from
  /\ \A i, j \in 1..Len(out.calls) :
       out.calls[i].kind = "point" /\ out.calls[j].kind = "span" =>
         \/ out.calls[j].to <= out.calls[i].from
         \/ out.calls[i].to <= out.calls[j].from

EqValues == { RangeValue(0, 0, TRUE), RangeValue(-1, 1, FALSE) }

EqRanges ==
  { Range(from, to, v) : from \in 0..SetDocLen, to \in 0..SetDocLen, v \in EqValues }

EqGroups == { << RangeSetOf(l, TRUE) >> : l \in RangeLists(EqRanges, MaxRanges) }

EqPairs ==
  { << RangeSetOf(l, TRUE), RangeSetOf(m, TRUE) >> :
      l, m \in RangeLists({ r \in EqRanges : r.value.point }, 1) \ { << >> } }

InitEq ==
  /\ setA \in EqGroups \cup EqPairs
  /\ setB \in EqGroups
  /\ arg = << >>
  /\ pc = "built"
  /\ setC = Unset
  /\ out = << >>
  /\ doc = Unset

EqBoth ==
  /\ pc = "built"
  /\ \E ends \in { << 0, SetDocLen >>, << 0, 1 >>, << 1, SetDocLen >> }, same \in BOOLEAN :
       /\ arg' = [from |-> ends[1], to |-> ends[2], same |-> same]
       /\ out' = [eq |-> eq(setA, setB, ends[1], ends[2], same),
                  reverse |-> eq(setB, setA, ends[1], ends[2], same)]
  /\ pc' = "compared"
  /\ UNCHANGED << doc, setA, setB, setC >>

NextEq == EqBoth

SpecEq == InitEq /\ [][NextEq]_vars

\* The spans and points of a group over the range of arg: the boundaries, the
\* active values and the points.
spansOf(sets) ==
  [i \in 1..Len(spans(sets, arg.from, arg.to, -1).calls) |->
     [k \in { "kind", "from", "to", "active", "value" } |->
        IF k \in DOMAIN spans(sets, arg.from, arg.to, -1).calls[i]
        THEN spans(sets, arg.from, arg.to, -1).calls[i][k] ELSE Null]]

\* C27: RangeSet.eq(oldSets, newSets, from, to) returns true iff the two
\* groups are equivalent over [from, to], with the same span boundaries,
\* active values and points; it is symmetric, and false when one side has a
\* point over a region where the other side has none.
EqIffEquivalent ==
  pc = "compared" =>
    /\ out.eq = (spansOf(setA) = spansOf(setB))
    /\ out.eq = out.reverse

\* ---------------------------------------------------------------------
\* SpecCompare: a group of sets over a document, a description of changes
\* to the document and a group of sets over the changed document are given
\* to RangeSet.compare.  setA and setB are the groups, arg.textDiff the
\* changes and out the calls of the comparator.
\* ---------------------------------------------------------------------

MaxCompared == 3

\* The ranges of all the sets of a group.
RECURSIVE groupRanges(_, _)
groupRanges(sets, k) ==
  IF k > Len(sets) THEN << >> ELSE setRanges(sets[k]) \o groupRanges(sets, k + 1)

Within(sets, length) ==
  \A k \in 1..Len(sets) : \A i \in 1..Len(setRanges(sets[k])) : setRanges(sets[k])[i].to <= length

ComparePairs ==
  { << RangeSetOf(l, TRUE), RangeSetOf(m, TRUE) >> : l, m \in RangeLists(EqRanges, 1) \ { << >> } }

InitCompare ==
  /\ setA \in EqGroups \cup ComparePairs
  /\ setB \in EqGroups
  /\ Len(groupRanges(setA, 1)) + Len(groupRanges(setB, 1)) <= MaxCompared
  /\ \E textDiff \in Descs(SetDocLen, SetIns, 1), same \in BOOLEAN :
       /\ Within(setB, newLengthFrom(textDiff.sections, 0))
       /\ same => findSharedChunks(setA, setB, textDiff) # {}
       /\ arg = [textDiff |-> textDiff, same |-> same]
  /\ pc = "built"
  /\ setC = Unset
  /\ out = << >>
  /\ doc = Unset

Compare ==
  /\ pc = "built"
  /\ out' = RangeSetCompare(setA, setB, arg.textDiff, -1, arg.same)
  /\ pc' = "compared"
  /\ UNCHANGED << doc, setA, setB, setC, arg >>

NextCompare == Compare

SpecCompare == InitCompare /\ [][NextCompare]_vars

\* What a group holds over [from, from + 1]: the spans with their active
\* values, and the points.
heldIn(calls) ==
  [i \in 1..Len(calls) |->
     [kind |-> calls[i].kind, active |-> calls[i].active,
      value |-> IF calls[i].kind = "point" THEN calls[i].value ELSE Null]]

heldOver(sets, from) ==
  heldIn(SelectSeq(spans(sets, from, from + 1, -1).calls, LAMBDA c : c.from < c.to))

\* The empty points of a group at a position outside every longer point.
pointsAt(sets, pos) ==
  IF \E i \in 1..Len(groupRanges(sets, 1)) :
       /\ groupRanges(sets, 1)[i].value.point
       /\ groupRanges(sets, 1)[i].from < pos /\ pos < groupRanges(sets, 1)[i].to
  THEN << >>
  ELSE [i \in 1..Len(SelectSeq(groupRanges(sets, 1),
                               LAMBDA r : r.value.point /\ r.from = pos /\ r.to = pos)) |->
          SelectSeq(groupRanges(sets, 1),
                    LAMBDA r : r.value.point /\ r.from = pos /\ r.to = pos)[i].value]

Reported(from, to) ==
  \E i \in 1..Len(out) :
    /\ out[i].kind \in { "compareRange", "comparePoint" }
    /\ out[i].from <= from
    /\ to <= out[i].to

\* The differences of the two groups in a gap are reported: the positions
\* p..p + 1 of the gap over which they hold different spans or points, and
\* the positions at which they hold different empty points.
GapReported(gap) ==
  /\ \A p \in 0..gap.length - 1 :
       heldOver(setA, gap.posA + p) # heldOver(setB, gap.posB + p)
         => Reported(gap.posB + p, gap.posB + p + 1)
  /\ \A p \in 0..gap.length :
       ~SameRanges(pointsAt(setA, gap.posA + p), pointsAt(setB, gap.posB + p))
         => Reported(gap.posB + p, gap.posB + p)

RECURSIVE layersChunks(_, _)
layersChunks(layers, i) ==
  IF i > Len(layers) THEN << >> ELSE layers[i].chunk \o layersChunks(layers, i + 1)

RECURSIVE groupChunks(_, _)
groupChunks(sets, k) ==
  IF k > Len(sets) THEN << >>
  ELSE layersChunks(layersOf(sets[k]), 1) \o groupChunks(sets, k + 1)

NoChunkTwice(sets) ==
  \A i, j \in 1..Len(groupChunks(sets, 1)) :
    i # j => groupChunks(sets, 1)[i] # groupChunks(sets, 1)[j]

SpansReported(gap) ==
  \A p \in 0..gap.length - 1 :
    heldOver(setA, gap.posA + p) # heldOver(setB, gap.posB + p)
      => Reported(gap.posB + p, gap.posB + p + 1)

----------------------------------------------------------------------------
(* Text cursors.  A RawTextCursor is the record of its stack of nodes, the *)
(* offset into each (twice the index, plus one when the position is after  *)
(* the line break between two neighbours), its direction and the value,    *)
(* lineBreak and done it shows.  A PartialTextCursor is the record of the  *)
(* raw cursor it wraps, its position and its range.                        *)

\* top instanceof TextLeaf ? top.text.length : top.children.length
nodeSize(t) == IF IsLeaf(t) THEN Len(t.text) ELSE Len(t.children)

\* The offset a cursor of direction dir starts a node at.
startOffset(t, dir) == IF dir > 0 THEN 1 ELSE 2 * nodeSize(t)

\* new RawTextCursor(text, dir)
RawTextCursor(text, dir) ==
  [nodes |-> << text >>, offsets |-> << startOffset(text, dir) >>, dir |-> dir,
   done |-> FALSE, lineBreak |-> FALSE, value |-> << >>]

\* this.offsets[last] += d
offsetMoved(cur, d) == [cur EXCEPT !.offsets[Len(cur.offsets)] = @ + d]

\* The end of a node: the cursor is done at the top, and leaves the node
\* otherwise, stepping over it in its parent when it runs forward.
nodeLeft(cur, dir) ==
  [cur EXCEPT !.nodes = SubSeq(cur.nodes, 1, Len(cur.nodes) - 1),
              !.offsets = SubSeq(IF dir > 0
                                 THEN [cur.offsets EXCEPT ![Len(cur.offsets) - 1] = @ + 1]
                                 ELSE cur.offsets,
                                 1, Len(cur.offsets) - 1)]

\* The cursor enters the child next.
nodeEntered(cur, next, dir) ==
  [cur EXCEPT !.nodes = Append(cur.nodes, next),
              !.offsets = Append((IF dir < 0 THEN offsetMoved(cur, -1) ELSE cur).offsets,
                                 startOffset(next, dir))]

\* The part of the line next that is left after skip units, in direction dir.
lineRest(next, skip, dir) ==
  IF skip = 0 THEN next
  ELSE IF dir > 0 THEN sliceFrom(next, skip)
  ELSE StrSlice(next, 0, Len(next) - skip)

\* The line or child at the offset of the top node, in direction dir.
nextAt(list, offset, dir) == list[offset + (IF dir < 0 THEN -1 ELSE 0) + 1]

\* A variant of lineYielded that takes the empty rest of a line for a value.
lineYieldedEmpty(next, skip) == Len(next) >= Max(0, skip)

\* Whether the line next is yielded: next.length > Math.max(0, skip)
lineYielded(next, skip) == Len(next) > Max(0, skip)

\* The state of the loop of nextInner: the cursor, what is left to skip,
\* and whether the loop has returned.
looping(cur, skip) == [cur |-> cur, skip |-> skip, returned |-> FALSE]

returned(cur) == [cur |-> cur, skip |-> 0, returned |-> TRUE]

\* One round of the loop of RawTextCursor.nextInner.
rawRound(cur, skip, dir) ==
  IF cur.offsets[Len(cur.offsets)] \div 2
       = (IF dir > 0 THEN nodeSize(cur.nodes[Len(cur.nodes)]) ELSE 0)
  THEN IF Len(cur.nodes) = 1 THEN returned([cur EXCEPT !.done = TRUE, !.value = << >>])
       ELSE looping(nodeLeft(cur, dir), skip)
  ELSE IF cur.offsets[Len(cur.offsets)] % 2 = (IF dir > 0 THEN 0 ELSE 1)
  THEN IF skip = 0
       THEN returned([offsetMoved(cur, dir) EXCEPT !.lineBreak = TRUE, !.value = << NL >>])
       ELSE looping(offsetMoved(cur, dir), skip - 1)
  ELSE IF IsLeaf(cur.nodes[Len(cur.nodes)])
  THEN IF lineYielded(nextAt(cur.nodes[Len(cur.nodes)].text,
                             cur.offsets[Len(cur.offsets)] \div 2, dir), skip)
       THEN returned([offsetMoved(cur, dir) EXCEPT
                        !.value = lineRest(nextAt(cur.nodes[Len(cur.nodes)].text,
                                                  cur.offsets[Len(cur.offsets)] \div 2, dir),
                                           skip, dir)])
       ELSE looping(offsetMoved(cur, dir),
                    skip - Len(nextAt(cur.nodes[Len(cur.nodes)].text,
                                      cur.offsets[Len(cur.offsets)] \div 2, dir)))
  ELSE IF skip > nextAt(cur.nodes[Len(cur.nodes)].children,
                        cur.offsets[Len(cur.offsets)] \div 2, dir).length
  THEN looping(offsetMoved(cur, dir),
               skip - nextAt(cur.nodes[Len(cur.nodes)].children,
                             cur.offsets[Len(cur.offsets)] \div 2, dir).length)
  ELSE looping(nodeEntered(cur, nextAt(cur.nodes[Len(cur.nodes)].children,
                                       cur.offsets[Len(cur.offsets)] \div 2, dir), dir),
               skip)

\* for (;;), as at most n rounds: a round moves the cursor over a line or a
\* line break, or into or out of a node, so that the lines of the document
\* bound the rounds.
RECURSIVE rawRounds(_, _, _)
rawRounds(st, dir, n) ==
  IF st.returned THEN st
  ELSE IF n <= 1 THEN rawRound(st.cur, st.skip, dir)
  ELSE rawRounds(rawRounds(st, dir, n \div 2), dir, n - n \div 2)

rawLoop(cur, skip, dir) ==
  rawRounds(looping(cur, skip), dir, 8 * (Lines(cur.nodes[1]) + 1)).cur

\* RawTextCursor.nextInner(skip, dir)
nextInner(cur, skip, dir) ==
  rawLoop([cur EXCEPT !.done = FALSE, !.lineBreak = FALSE], skip, dir)

\* RawTextCursor.next(skip)
rawNext(cur, skip) ==
  IF skip < 0
  THEN nextInner(nextInner(cur, -skip, -cur.dir),
                 Len(nextInner(cur, -skip, -cur.dir).value), cur.dir)
  ELSE nextInner(cur, skip, cur.dir)

\* new PartialTextCursor(text, start, end)
PartialTextCursor(text, start, end) ==
  [cursor |-> RawTextCursor(text, IF start > end THEN -1 ELSE 1),
   value |-> << >>,
   pos |-> IF start > end THEN text.length ELSE 0,
   from |-> Min(start, end), to |-> Max(start, end),
   done |-> FALSE]

\* The skip and the limit of PartialTextCursor.nextInner, after the skip was
\* capped by the limit and taken off it.
partialSkip(cur, skip, dir) ==
  Min(skip + Max(0, IF dir < 0 THEN cur.pos - cur.to ELSE cur.from - cur.pos),
      IF dir < 0 THEN cur.pos - cur.from ELSE cur.to - cur.pos)

partialLimit(cur, skip, dir) ==
  (IF dir < 0 THEN cur.pos - cur.from ELSE cur.to - cur.pos) - partialSkip(cur, skip, dir)

\* The value of the raw cursor cut to limit units.
limited(value, limit, dir) ==
  IF Len(value) <= limit THEN value
  ELSE IF dir < 0 THEN sliceFrom(value, Len(value) - limit)
  ELSE StrSlice(value, 0, limit)

\* The partial cursor after its raw cursor made the step raw with skip.
partialMoved(cur, raw, skip, limit, dir) ==
  [cur EXCEPT !.cursor = raw,
              !.pos = @ + (Len(raw.value) + skip) * dir,
              !.value = limited(raw.value, limit, dir),
              !.done = limited(raw.value, limit, dir) = << >>]

\* PartialTextCursor.nextInner(skip, dir)
partialNextInner(cur, skip, dir) ==
  IF (IF dir < 0 THEN cur.pos <= cur.from ELSE cur.pos >= cur.to)
  THEN [cur EXCEPT !.value = << >>, !.done = TRUE]
  ELSE partialMoved(cur, rawNext(cur.cursor, partialSkip(cur, skip, dir)),
                    partialSkip(cur, skip, dir), partialLimit(cur, skip, dir), dir)

\* PartialTextCursor.next(skip)
partialNext(cur, skip) ==
  partialNextInner(cur,
                   IF skip < 0 THEN Max(skip, cur.from - cur.pos)
                   ELSE IF skip > 0 THEN Min(skip, cur.to - cur.pos)
                   ELSE skip,
                   cur.cursor.dir)

\* PartialTextCursor.lineBreak
partialLineBreak(cur) == cur.cursor.lineBreak /\ cur.value # << >>

----------------------------------------------------------------------------
(* SpecIter: a cursor made by iter(1), iter(-1) or iterRange(a, b) over a  *)
(* document is advanced by next() until it is done, and a few times more;  *)
(* out collects the values it yields with their lineBreak flags.           *)

\* Longest line of a document of SpecIter, and the calls of next() made on
\* a cursor that is done.
IterLineLen == 2
MaxAfterDone == 2

\* n lines whose lengths run through 0..IterLineLen in steps of p.
IterLines(n, p) == [j \in 1..n |-> Line(j % 3, (j * p) % (IterLineLen + 1))]

\* Documents of one leaf, of two levels and of three.
IterCounts == { 1, 2, 3, Branch + 1, 2 * Branch + 1, Branch * Branch + 1 }

\* Documents that Text.of builds, and those with more lines than a leaf
\* holds put into their middle.
IterDocs ==
  { TextOf(IterLines(n, p)) : n \in IterCounts, p \in 0..IterLineLen }
  \cup { Replace(TextOf(IterLines(n, 1)), n, n + 1, TextOf(IterLines(Branch + 2, 2))) :
           n \in { 3, Branch + 1 } }

\* The ranges iterated: both ends, the middle, and one unit from each.
IterPositions(t) == { 0, 1, 2, t.length \div 2, t.length - 1, t.length } \cap 0..t.length

InitIter ==
  /\ doc \in IterDocs
  /\ \/ \E dir \in { 1, -1 } :
          /\ setA = RawTextCursor(doc, dir)
          /\ arg = [kind |-> "iter", dir |-> dir, after |-> 0]
     \/ \E a \in IterPositions(doc), b \in IterPositions(doc) :
          /\ Lines(doc) <= 2 * Branch + 1
          /\ setA = PartialTextCursor(doc, a, b)
          /\ arg = [kind |-> "iterRange", from |-> a, to |-> b, after |-> 0]
  /\ setB = Unset /\ setC = Unset
  /\ out = << >>
  /\ pc = "iterating"

\* What a loop over the cursor sees of a step: the value with its flag,
\* unless the cursor is done.
yielded(seen, cur, lineBreak) ==
  IF cur.done THEN seen ELSE Append(seen, [value |-> cur.value, lineBreak |-> lineBreak])

Advanced(cur, lineBreak) ==
  /\ setA' = cur
  /\ out' = yielded(out, cur, lineBreak)
  /\ arg' = [arg EXCEPT !.after = IF setA.done THEN @ + 1 ELSE @]
  /\ pc' = IF cur.done THEN "done" ELSE "iterating"
  /\ UNCHANGED << doc, setB, setC >>

\* cursor.next() on a cursor of iter(dir)
IterNext ==
  /\ arg.kind = "iter"
  /\ ~setA.done \/ arg.after < MaxAfterDone
  /\ Advanced(rawNext(setA, 0), rawNext(setA, 0).lineBreak)

\* cursor.next() on a cursor of iterRange(a, b)
IterRangeNext ==
  /\ arg.kind = "iterRange"
  /\ ~setA.done \/ arg.after < MaxAfterDone
  /\ Advanced(partialNext(setA, 0), partialLineBreak(partialNext(setA, 0)))

NextIter == IterNext \/ IterRangeNext

SpecIter == InitIter /\ [][NextIter]_vars

\* The values of seen[lo..hi], one after the other.
RECURSIVE joinValues(_, _, _)
joinValues(seen, lo, hi) ==
  IF lo > hi THEN << >>
  ELSE IF lo = hi THEN seen[lo].value
  ELSE joinValues(seen, lo, (lo + hi) \div 2) \o joinValues(seen, (lo + hi) \div 2 + 1, hi)

joined(seen) == joinValues(seen, 1, Len(seen))

Reversed(seen) == [i \in 1..Len(seen) |-> seen[Len(seen) + 1 - i]]

\* The lines of a document with a flagged line break between each two,
\* without the empty lines.
isValue(y) == y.value # << >>

linesAndBreaks(lines) ==
  SelectSeq([k \in 1..2 * Len(lines) - 1 |->
               IF k % 2 = 1 THEN [value |-> lines[(k + 1) \div 2], lineBreak |-> FALSE]
               ELSE [value |-> << NL >>, lineBreak |-> TRUE]],
            isValue)

\* What the cursor has yielded when it is done.
IterContent ==
  pc = "done" =>
    /\ arg.kind = "iter" /\ arg.dir = 1 =>
         /\ joined(out) = sliceString(doc, 0, doc.length, 0, 0)
         /\ out = linesAndBreaks(flatten(doc))
    /\ arg.kind = "iter" /\ arg.dir = -1 => out = Reversed(linesAndBreaks(flatten(doc)))
    /\ arg.kind = "iterRange" /\ arg.from <= arg.to =>
         joined(out) = sliceString(doc, arg.from, arg.to, 0, 0)
    /\ arg.kind = "iterRange" /\ arg.from > arg.to =>
         joined(Reversed(out)) = sliceString(doc, arg.to, arg.from, 0, 0)

\* A cursor that is done stays done, with the empty value.
DoneStays == setA.done => setA'.done /\ setA'.value = << >> /\ out' = out

\* C30: a cursor of iter(1) that is done has yielded the lines of the
\* document and a flagged "\n" for each line break, which together are
\* sliceString(0); one of iter(-1) has yielded the same values in reverse
\* order; one of iterRange(a, b) has yielded sliceString(a, b), back to front
\* when a > b; and a cursor that is done stays done with the value "" on
\* every further next().
IterReproducesContent == [](IterContent) /\ [][DoneStays]_vars

\* A cursor over a document of more than one level is done, after it has
\* yielded line breaks and lines, and next() was called on it again.
IterReproducesContentWitness ==
  /\ pc = "done"
  /\ ~IsLeaf(doc)
  /\ arg.after = MaxAfterDone
  /\ \E i \in 1..Len(out) : out[i].lineBreak
  /\ \E i \in 1..Len(out) : ~out[i].lineBreak
  /\ arg.kind = "iterRange" /\ arg.from > 0 /\ arg.to < doc.length /\ arg.from < arg.to

====
